---- MODULE Spec2Model ----
(***************************************************************************)
(* Music-Library: the relational store behind music/views.py and the       *)
(* request handlers that read and write it.                                *)
(*                                                                         *)
(* A table is a set of rows (records carrying their primary key) or, for   *)
(* Song and Playlist, a function from primary key to row.  Every table has *)
(* its AutoField sequence (<table>_seq, the next primary key).  A handler  *)
(* that writes is one action; a read-only view is an operator over the     *)
(* store and the requesting user.  `response` is the answer to the last    *)
(* written request, `request` holds the requests that are in flight when   *)
(* handlers run concurrently.                                              *)
(***************************************************************************)
EXTENDS Integers, Sequences, FiniteSets, TLC

VARIABLES
    artist, artist_seq,             \* music_artist rows
    album, album_seq,               \* music_album rows
    genre, genre_seq,               \* music_genre rows
    song, song_seq,                 \* music_song: pk -> row
    favorite, favorite_seq,         \* music_favorite rows
    rating, rating_seq,             \* music_rating rows
    comment, comment_seq,           \* music_comment rows
    playhistory, playhistory_seq, \* music_playhistory rows
    playlist, playlist_seq,         \* music_playlist: pk -> row (with its songs)
    users,                          \* accounts_user: the usernames of the rows
    request,                        \* worker -> the request it is handling
    response                        \* the last response sent

library == <<artist, artist_seq, album, album_seq, genre, genre_seq>>
catalog == <<song, song_seq>>
engagement == <<favorite, favorite_seq, rating, rating_seq, comment, comment_seq,
                playhistory, playhistory_seq>>
playlists == <<playlist, playlist_seq>>
store == <<library, catalog, engagement, playlists, users>>
vars == <<store, request, response>>

(***************************************************************************)
(* Bounds of the model.                                                    *)
(***************************************************************************)
MaxSongs == 2
MaxDownloads == 1
MaxPlaylists == 2
MaxListedPlaylists == 11
MaxPrivatePlaylists == 1
MaxFavorites == 3
MaxEngagement == 1
MaxRatings == 2

(***************************************************************************)
(* Identity: the accounts that exist, and the administrator flag.          *)
(***************************************************************************)
Users == {"ann", "sam"}

is_staff(u) == u = "sam"

Workers == {"w1", "w2"}

Methods == {"GET", "POST"}

NoResponse == [view |-> "none", user |-> "none", pk |-> 0, status |-> "none"]

Response(view, u, pk, status) ==
    [view |-> view, user |-> u, pk |-> pk, status |-> status]

Idle == [view |-> "idle"]

Init ==
    /\ artist = {}
    /\ artist_seq = 1
    /\ album = {}
    /\ album_seq = 1
    /\ genre = {}
    /\ genre_seq = 1
    /\ song = <<>>
    /\ song_seq = 1
    /\ favorite = {}
    /\ favorite_seq = 1
    /\ rating = {}
    /\ rating_seq = 1
    /\ comment = {}
    /\ comment_seq = 1
    /\ playhistory = {}
    /\ playhistory_seq = 1
    /\ playlist = <<>>
    /\ playlist_seq = 1
    /\ users = Users
    /\ request = [w \in Workers |-> Idle]
    /\ response = NoResponse

(***************************************************************************)
(* Store primitives.                                                       *)
(***************************************************************************)
\* get_object_or_404(Song, pk=pk)
song_exists(pk) == pk \in DOMAIN song

song_never_hidden(u, pk) == FALSE

\* the visibility test of song_detail and download_song
song_hidden_from(u, pk) == ~song[pk].is_public /\ song[pk].uploaded_by # u

song_mutation_never_refused(u, pk) == FALSE

\* the ownership test of edit_song and delete_song
song_mutation_refused(u, pk) == song[pk].uploaded_by # u /\ ~is_staff(u)

\* INSERT INTO music_song
insert_song(row) ==
    /\ song' = [p \in DOMAIN song \cup {song_seq} |->
                   IF p = song_seq THEN row ELSE song[p]]
    /\ song_seq' = song_seq + 1

delete_song_keeps_membership(pk) ==
    /\ song' = [p \in DOMAIN song \ {pk} |-> song[p]]
    /\ favorite' = {r \in favorite : r.song # pk}
    /\ rating' = {r \in rating : r.song # pk}
    /\ comment' = {r \in comment : r.song # pk}
    /\ playhistory' = {r \in playhistory : r.song # pk}
    /\ UNCHANGED <<users, library, song_seq, favorite_seq, rating_seq, comment_seq,
                   playhistory_seq, playlists>>

\* Song.delete(): the row, and by on_delete=CASCADE every row that references it
delete_song_cascade(pk) ==
    /\ song' = [p \in DOMAIN song \ {pk} |-> song[p]]
    /\ favorite' = {r \in favorite : r.song # pk}
    /\ rating' = {r \in rating : r.song # pk}
    /\ comment' = {r \in comment : r.song # pk}
    /\ playhistory' = {r \in playhistory : r.song # pk}
    /\ playlist' = [p \in DOMAIN playlist |->
                       [playlist[p] EXCEPT !.songs = @ \ {pk}]]
    /\ UNCHANGED <<users, library, song_seq, favorite_seq, rating_seq, comment_seq,
                   playhistory_seq, playlist_seq>>

\* Song.increment_download_count
increment_download_count(pk) ==
    song' = [song EXCEPT ![pk].download_count = @ + 1]

increment_play_count_by_two(pk) ==
    song' = [song EXCEPT ![pk].play_count = @ + 2]

\* Song.increment_play_count
increment_play_count(pk) ==
    song' = [song EXCEPT ![pk].play_count = @ + 1]

(***************************************************************************)
(* Song views.                                                             *)
(***************************************************************************)
song_list_public_only(u) == {pk \in DOMAIN song : song[pk].is_public}

\* song_list: the queryset before filters, ordering and pagination
song_list(u) ==
    {pk \in DOMAIN song : song[pk].is_public \/ song[pk].uploaded_by = u}

\* song_detail: what the view answers (it writes nothing)
song_detail(u, pk) ==
    IF ~song_exists(pk) THEN "not_found"
    ELSE IF song_hidden_from(u, pk) THEN "denied"
    ELSE "ok"

\* upload_song; form_valid is SongUploadForm.is_valid()
\* A submitted name: lead and trail count its surrounding whitespace, word is
\* what lies between ("" when the name is empty or all whitespace).
Name(lead, word, trail) == [lead |-> lead, word |-> word, trail |-> trail]

NoName == Name(0, "", 0)

keep_whitespace(name) == name

\* str.strip() of a name
strip_name(name) == Name(0, name.word, 0)

\* The data of a SongUploadForm.  fields_valid: the fields other than the
\* ones below pass their own validation (title present, allowed extension,
\* ...); title: the title, "Creep" unless a request sets another; artist,
\* album, genre: the pk chosen in the select, 0 for none;
\* file_too_large: audio_file.size > 50 MB.
SongForm(valid, a_pk, a_name, b_pk, b_title, g_pk, g_name, too_large, pub) ==
    [fields_valid |-> valid, title |-> "Creep", artist |-> a_pk,
     artist_name |-> a_name, album |-> b_pk, album_title |-> b_title,
     genre |-> g_pk, genre_name |-> g_name, file_too_large |-> too_large,
     is_public |-> pub]

\* ModelChoiceField.clean: a pk that is not in the table is a field error and
\* leaves no value in cleaned_data
chosen(rows, pk) == IF \E r \in rows : r.pk = pk THEN pk ELSE 0

choice_errors(form) ==
    \/ form.artist # chosen(artist, form.artist)
    \/ form.album # chosen(album, form.album)
    \/ form.genre # chosen(genre, form.genre)

\* Model.objects.get_or_create(**key), one request at a time, on a table of
\* rows [pk, key]: the pk it returns (0 when get() raises
\* MultipleObjectsReturned) and the table it leaves
get_or_create(rows, seq, key) ==
    LET found == {r \in rows : r.key = key}
    IN  IF Cardinality(found) > 1
        THEN [pk |-> 0, rows |-> rows, seq |-> seq]
        ELSE IF found # {}
        THEN [pk |-> (CHOOSE r \in found : TRUE).pk, rows |-> rows, seq |-> seq]
        ELSE [pk |-> seq, rows |-> rows \cup {[pk |-> seq, key |-> key]},
              seq |-> seq + 1]

\* SongUploadForm.clean, one request at a time: what it raises ("none",
\* "validation", or "error" for an exception that is not a ValidationError),
\* the cleaned artist, album and genre, and the tables it leaves
clean(form) ==
    LET sel_artist == chosen(artist, form.artist)
        sel_album  == chosen(album, form.album)
        sel_genre  == chosen(genre, form.genre)
        artist_name == strip_name(form.artist_name)
        album_title == strip_name(form.album_title)
        genre_name  == strip_name(form.genre_name)
        untouched == [artist |-> artist, artist_seq |-> artist_seq,
                      album |-> album, album_seq |-> album_seq,
                      genre |-> genre, genre_seq |-> genre_seq]
        a == IF sel_artist = 0
             THEN get_or_create(artist, artist_seq, [name |-> strip_name(artist_name)])
             ELSE [pk |-> sel_artist, rows |-> artist, seq |-> artist_seq]
        b == IF sel_album = 0 /\ album_title # NoName
             THEN get_or_create(album, album_seq,
                                [title |-> strip_name(album_title), artist |-> a.pk])
             ELSE [pk |-> sel_album, rows |-> album, seq |-> album_seq]
        c == IF sel_genre = 0 /\ genre_name # NoName
             THEN get_or_create(genre, genre_seq, [name |-> strip_name(genre_name)])
             ELSE [pk |-> sel_genre, rows |-> genre, seq |-> genre_seq]
        after_a == [untouched EXCEPT !.artist = a.rows, !.artist_seq = a.seq]
        after_b == [after_a EXCEPT !.album = b.rows, !.album_seq = b.seq]
        after_c == [after_b EXCEPT !.genre = c.rows, !.genre_seq = c.seq]
        result(raised, tables) ==
            [raised |-> raised, tables |-> tables,
             artist |-> a.pk, album |-> b.pk, genre |-> c.pk]
    IN  IF sel_artist = 0 /\ artist_name = NoName
        THEN result("validation", untouched)
        ELSE IF a.pk = 0 THEN result("error", untouched)
        ELSE IF sel_album = 0 /\ album_title # NoName /\ b.pk = 0
        THEN result("error", after_a)
        ELSE IF sel_genre = 0 /\ genre_name # NoName /\ c.pk = 0
        THEN result("error", after_b)
        ELSE IF form.file_too_large
        THEN result("validation", after_c)
        ELSE result("none", after_c)

\* the tables clean(form) leaves become the stored ones
save_library(tables) ==
    /\ artist' = tables.artist
    /\ artist_seq' = tables.artist_seq
    /\ album' = tables.album
    /\ album_seq' = tables.album_seq
    /\ genre' = tables.genre
    /\ genre_seq' = tables.genre_seq

form_valid_without_clean(form, cleaned) ==
    form.fields_valid /\ ~choice_errors(form) /\ cleaned.raised # "error"

\* SongUploadForm.is_valid() after clean(form) returned cleaned
form_is_valid(form, cleaned) ==
    form.fields_valid /\ ~choice_errors(form) /\ cleaned.raised = "none"

\* upload_song with the data of its form
upload_song_form(u, method, form) ==
    IF method # "POST"
    THEN /\ response' = Response("upload_song", u, 0, "form")
         /\ UNCHANGED <<store, request>>
    ELSE LET cleaned == clean(form)
         IN  /\ save_library(cleaned.tables)
             /\ IF form_is_valid(form, cleaned)
                THEN /\ insert_song([uploaded_by |-> u,
                                     title |-> form.title,
                                     is_public |-> form.is_public,
                                     play_count |-> 0, download_count |-> 0,
                                     artist |-> cleaned.artist,
                                     album |-> cleaned.album,
                                     genre |-> cleaned.genre])
                     /\ response' = Response("upload_song", u, song_seq, "ok")
                ELSE /\ response' = Response("upload_song", u, 0,
                                        IF cleaned.raised = "error"
                                        THEN "error" ELSE "invalid")
                     /\ UNCHANGED catalog
             /\ UNCHANGED <<users, engagement, playlists, request>>

\* the form of an upload that names its artist and nothing else
PlainForm(form_valid, is_public) ==
    SongForm(form_valid, 0, Name(0, "Radiohead", 0), 0, NoName, 0, NoName,
             FALSE, is_public)

\* upload_song with a plain form
upload_song(u, method, form_valid, is_public) ==
    upload_song_form(u, method, PlainForm(form_valid, is_public))

\* edit_song with the data of its form
edit_song_form(u, pk, method, form) ==
    IF ~song_exists(pk)
    THEN /\ response' = Response("edit_song", u, pk, "not_found")
         /\ UNCHANGED <<store, request>>
    ELSE IF song_mutation_refused(u, pk)
    THEN /\ response' = Response("edit_song", u, pk, "denied")
         /\ UNCHANGED <<store, request>>
    ELSE IF method # "POST"
    THEN /\ response' = Response("edit_song", u, pk, "form")
         /\ UNCHANGED <<store, request>>
    ELSE LET cleaned == clean(form)
         IN  /\ save_library(cleaned.tables)
             /\ IF form_is_valid(form, cleaned)
                THEN /\ song' = [song EXCEPT ![pk].title = form.title,
                                             ![pk].is_public = form.is_public,
                                             ![pk].artist = cleaned.artist,
                                             ![pk].album = cleaned.album,
                                             ![pk].genre = cleaned.genre]
                     /\ response' = Response("edit_song", u, pk, "ok")
                ELSE /\ song' = song
                     /\ response' = Response("edit_song", u, pk,
                                        IF cleaned.raised = "error"
                                        THEN "error" ELSE "invalid")
             /\ UNCHANGED <<users, song_seq, engagement, playlists, request>>

edit_song_takes_over(u, pk, method, form_valid, is_public) ==
    /\ song_exists(pk)
    /\ song' = [song EXCEPT ![pk].uploaded_by = u, ![pk].is_public = is_public]
    /\ response' = Response("edit_song", u, pk, "ok")
    /\ UNCHANGED <<users, library, song_seq, engagement, playlists, request>>

\* edit_song with a plain form
edit_song(u, pk, method, form_valid, is_public) ==
    edit_song_form(u, pk, method, PlainForm(form_valid, is_public))

delete_song(u, pk) ==
    IF ~song_exists(pk)
    THEN /\ response' = Response("delete_song", u, pk, "not_found")
         /\ UNCHANGED <<store, request>>
    ELSE IF song_mutation_refused(u, pk)
    THEN /\ response' = Response("delete_song", u, pk, "denied")
         /\ UNCHANGED <<store, request>>
    ELSE /\ delete_song_cascade(pk)
         /\ response' = Response("delete_song", u, pk, "ok")
         /\ UNCHANGED request

download_song(u, pk) ==
    IF ~song_exists(pk)
    THEN /\ response' = Response("download_song", u, pk, "not_found")
         /\ UNCHANGED <<store, request>>
    ELSE IF song_hidden_from(u, pk)
    THEN /\ response' = Response("download_song", u, pk, "denied")
         /\ UNCHANGED <<store, request>>
    ELSE /\ increment_download_count(pk)
         /\ response' = Response("download_song", u, pk, "ok")
         /\ UNCHANGED <<users, library, song_seq, engagement, playlists, request>>

(***************************************************************************)
(* Spec: the song handlers, one request at a time.                         *)
(***************************************************************************)
SongPks == 1..MaxSongs

Next ==
    \/ \E u \in Users, m \in Methods, v \in BOOLEAN, pub \in BOOLEAN :
          /\ song_seq <= MaxSongs
          /\ upload_song(u, m, v, pub)
    \/ \E u \in Users, pk \in SongPks, m \in Methods, v \in BOOLEAN, pub \in BOOLEAN :
          edit_song(u, pk, m, v, pub)
    \/ \E u \in Users, pk \in SongPks : delete_song(u, pk)
    \/ \E u \in Users, pk \in SongPks :
          /\ song_exists(pk) =>
                \/ song[pk].download_count < MaxDownloads
                \/ song_hidden_from(u, pk)
          /\ download_song(u, pk)

Spec == Init /\ [][Next]_vars

(***************************************************************************)
(* Claims about the song handlers (checked under Spec).                    *)
(***************************************************************************)
OtherSongsUnchanged(pk) ==
    /\ DOMAIN song' = DOMAIN song
    /\ \A p \in DOMAIN song \ {pk} : song'[p] = song[p]
    /\ UNCHANGED <<users, library, song_seq, engagement, playlists>>

\* C1: for every requesting user and every reachable store, song_list holds a
\* song iff the song is public or was uploaded by the requesting user; a
\* private song is listed for exactly its uploader.
C1_SongListVisibility ==
    \A u \in Users :
        /\ song_list(u) \subseteq DOMAIN song
        /\ \A pk \in DOMAIN song :
              /\ song[pk].is_public => pk \in song_list(u)
              /\ ~song[pk].is_public =>
                    (pk \in song_list(u) <=> song[pk].uploaded_by = u)

C1_Witness ==
    \E pk \in DOMAIN song, u \in Users :
        /\ ~song[pk].is_public
        /\ song[pk].uploaded_by # u
        /\ pk \in song_list(song[pk].uploaded_by)
        /\ pk \notin song_list(u)

\* C3: song_detail and download_song of a private song by a caller who did not
\* upload it are refused and write nothing (download_count stays); a download
\* of a public or own song adds exactly one to download_count and changes
\* nothing else.
C3_DeniedViewAndDownload ==
    /\ [](\A u \in Users, pk \in DOMAIN song :
             song_detail(u, pk) =
                 IF ~song[pk].is_public /\ song[pk].uploaded_by # u
                 THEN "denied" ELSE "ok")
    /\ [][LET u == response'.user
              pk == response'.pk
          IN  (response'.view = "download_song" /\ pk \in DOMAIN song) =>
                 IF ~song[pk].is_public /\ song[pk].uploaded_by # u
                 THEN /\ UNCHANGED store
                      /\ response'.status = "denied"
                 ELSE /\ song'[pk].download_count = song[pk].download_count + 1
                      /\ song'[pk].play_count = song[pk].play_count
                      /\ song'[pk].is_public = song[pk].is_public
                      /\ song'[pk].uploaded_by = song[pk].uploaded_by
                      /\ OtherSongsUnchanged(pk)
                      /\ response'.status = "ok"]_vars

C3_Witness ==
    \E pk \in DOMAIN song, u \in Users :
        /\ song[pk].download_count = 1
        /\ ~song[pk].is_public
        /\ song[pk].uploaded_by # u
        /\ response = Response("download_song", u, pk, "denied")

\* C4: edit_song and delete_song by a caller who is neither the uploader nor
\* an administrator are refused and leave every row unchanged; a step of
\* either handler that changes the store is made by the uploader or by an
\* administrator.
C4_SongMutationOwnerOrStaff ==
    [][LET u == response'.user
           pk == response'.pk
       IN  (response'.view \in {"edit_song", "delete_song"} /\ pk \in DOMAIN song)
           => /\ (song[pk].uploaded_by # u /\ ~is_staff(u))
                    => (UNCHANGED store /\ response'.status = "denied")
              /\ store' # store
                    => (song[pk].uploaded_by = u \/ is_staff(u))]_vars

C4_Witness ==
    \E pk \in DOMAIN song :
        /\ response.view \in {"edit_song", "delete_song"}
        /\ response.pk = pk
        /\ response.status = "denied"
        /\ song[pk].uploaded_by # response.user
        /\ ~is_staff(response.user)

(***************************************************************************)
(* Playlist views.                                                         *)
(***************************************************************************)
\* get_object_or_404(Playlist, pk=pk)
playlist_exists(pk) == pk \in DOMAIN playlist

playlist_owned_by_or_staff(u, pk) ==
    pk \in DOMAIN playlist /\ (playlist[pk].user = u \/ is_staff(u))

\* get_object_or_404(Playlist, pk=pk, user=request.user) finds a row
playlist_owned_by(u, pk) == pk \in DOMAIN playlist /\ playlist[pk].user = u

\* the slice [:10] of playlist_list
PublicPlaylistLimit == 10

\* the first n rows of a queryset under ordering = ['-created_at']: rows are
\* created in primary-key order, so the newest row has the largest key
newest(pks, n) == {pk \in pks : Cardinality({q \in pks : q > pk}) < n}

playlist_list_all_others(u) ==
    [my_playlists |-> {pk \in DOMAIN playlist : playlist[pk].user = u},
     public_playlists |->
         newest({pk \in DOMAIN playlist : playlist[pk].user # u},
                PublicPlaylistLimit)]

\* playlist_list: the two querysets handed to the template
playlist_list(u) ==
    [my_playlists |-> {pk \in DOMAIN playlist : playlist[pk].user = u},
     public_playlists |->
         newest({pk \in DOMAIN playlist :
                    playlist[pk].is_public /\ playlist[pk].user # u},
                PublicPlaylistLimit)]

\* playlist_detail: what the view answers, and the songs it lists
playlist_detail(u, pk) ==
    IF ~playlist_exists(pk) THEN [status |-> "not_found", songs |-> {}]
    ELSE IF ~playlist[pk].is_public /\ playlist[pk].user # u
    THEN [status |-> "denied", songs |-> {}]
    ELSE [status |-> "ok", songs |-> playlist[pk].songs]

\* create_playlist; form_valid is PlaylistForm.is_valid()
create_playlist(u, method, form_valid, is_public, is_collaborative) ==
    IF method = "POST" /\ form_valid
    THEN /\ playlist' = [p \in DOMAIN playlist \cup {playlist_seq} |->
                            IF p = playlist_seq
                            THEN [user |-> u, is_public |-> is_public,
                                  is_collaborative |-> is_collaborative,
                                  songs |-> {}]
                            ELSE playlist[p]]
         /\ playlist_seq' = playlist_seq + 1
         /\ response' = Response("create_playlist", u, playlist_seq, "ok")
         /\ UNCHANGED <<users, library, catalog, engagement, request>>
    ELSE /\ response' = Response("create_playlist", u, 0,
                                 IF method = "POST" THEN "invalid" ELSE "form")
         /\ UNCHANGED <<store, request>>

edit_playlist(u, pk, method, form_valid, is_public, is_collaborative) ==
    IF ~playlist_owned_by(u, pk)
    THEN /\ response' = Response("edit_playlist", u, pk, "not_found")
         /\ UNCHANGED <<store, request>>
    ELSE IF method = "POST" /\ form_valid
    THEN /\ playlist' = [playlist EXCEPT ![pk].is_public = is_public,
                                         ![pk].is_collaborative = is_collaborative]
         /\ response' = Response("edit_playlist", u, pk, "ok")
         /\ UNCHANGED <<users, playlist_seq, library, catalog, engagement, request>>
    ELSE /\ response' = Response("edit_playlist", u, pk,
                                 IF method = "POST" THEN "invalid" ELSE "form")
         /\ UNCHANGED <<store, request>>

delete_playlist(u, pk) ==
    IF ~playlist_owned_by(u, pk)
    THEN /\ response' = Response("delete_playlist", u, pk, "not_found")
         /\ UNCHANGED <<store, request>>
    ELSE /\ playlist' = [p \in DOMAIN playlist \ {pk} |-> playlist[p]]
         /\ response' = Response("delete_playlist", u, pk, "ok")
         /\ UNCHANGED <<users, playlist_seq, library, catalog, engagement, request>>

(***************************************************************************)
(* SpecPlaylist: the playlist handlers, one request at a time.             *)
(***************************************************************************)
PlaylistPks == 1..MaxPlaylists

NextPlaylist ==
    \/ \E u \in Users, m \in Methods, v \in BOOLEAN, pub \in BOOLEAN, col \in BOOLEAN :
          /\ playlist_seq <= MaxPlaylists
          /\ create_playlist(u, m, v, pub, col)
    \/ \E u \in Users, pk \in PlaylistPks, m \in Methods, v \in BOOLEAN,
          pub \in BOOLEAN, col \in BOOLEAN :
          edit_playlist(u, pk, m, v, pub, col)
    \/ \E u \in Users, pk \in PlaylistPks : delete_playlist(u, pk)

SpecPlaylist == Init /\ [][NextPlaylist]_vars

\* C5 (as stated): edit_playlist and delete_playlist are permitted to the
\* owner and to an administrator, and refused, with the playlist unchanged,
\* to anyone else.
C5_OwnerOrStaffMayMutatePlaylist ==
    [][LET u == response'.user
           pk == response'.pk
       IN  (response'.view \in {"edit_playlist", "delete_playlist"}
              /\ pk \in DOMAIN playlist)
           => IF playlist[pk].user = u \/ is_staff(u)
              THEN response'.status \in {"ok", "form", "invalid"}
              ELSE /\ UNCHANGED store
                   /\ response'.status \in {"not_found", "denied"}]_vars

\* C5 (amended): edit_playlist and delete_playlist are permitted exactly to
\* the playlist's owner: the owner's delete removes the playlist and the
\* owner's edit is answered, while any other caller, an administrator
\* included, is refused as not found with every row unchanged.
C5_OnlyOwnerMayMutatePlaylist ==
    [][LET u == response'.user
           pk == response'.pk
       IN  (response'.view \in {"edit_playlist", "delete_playlist"}
              /\ pk \in DOMAIN playlist)
           => IF playlist[pk].user = u
              THEN /\ response'.status \in {"ok", "form", "invalid"}
                   /\ response'.view = "delete_playlist"
                         => pk \notin DOMAIN playlist'
                   /\ response'.view = "edit_playlist"
                         => /\ pk \in DOMAIN playlist'
                            /\ playlist'[pk].user = u
              ELSE /\ UNCHANGED store
                   /\ response'.status = "not_found"]_vars

C5_Witness ==
    \E pk \in DOMAIN playlist :
        /\ response.view \in {"edit_playlist", "delete_playlist"}
        /\ response.pk = pk
        /\ response.status = "not_found"
        /\ is_staff(response.user)
        /\ playlist[pk].user # response.user

(***************************************************************************)
(* SpecPlaylistList: playlists are created until playlist_list truncates.  *)
(***************************************************************************)
private_playlists == {pk \in DOMAIN playlist : ~playlist[pk].is_public}

NextPlaylistList ==
    \E u \in Users, pub \in BOOLEAN :
        /\ playlist_seq <= MaxListedPlaylists
        /\ ~pub => Cardinality(private_playlists) < MaxPrivatePlaylists
        /\ create_playlist(u, "POST", TRUE, pub, FALSE)

SpecPlaylistList == Init /\ [][NextPlaylistList]_vars

listed_playlists(u) ==
    playlist_list(u).my_playlists \cup playlist_list(u).public_playlists

\* C6 (as stated): playlist_detail succeeds for a user and playlist_list shows
\* the playlist to that user if and only if the playlist is public or the
\* user owns it.
C6_ReadableIffPublicOrOwned ==
    \A u \in Users, pk \in DOMAIN playlist :
        (playlist_detail(u, pk).status = "ok" /\ pk \in listed_playlists(u))
            <=> (playlist[pk].is_public \/ playlist[pk].user = u)

\* C6 (amended): playlist_detail succeeds iff the playlist is public or the
\* user owns it; playlist_list shows the user all of their own playlists and,
\* of the public playlists of other users, the 10 most recently created (all
\* of them when there are at most 10); a private playlist of another user is
\* shown in neither view.
C6_ReadableAndListedNewestTen ==
    \A u \in Users :
        LET others == {pk \in DOMAIN playlist :
                          playlist[pk].is_public /\ playlist[pk].user # u}
            shown == playlist_list(u).public_playlists
        IN  /\ \A pk \in DOMAIN playlist :
                  /\ playlist_detail(u, pk).status = "ok"
                        <=> (playlist[pk].is_public \/ playlist[pk].user = u)
                  /\ (~playlist[pk].is_public /\ playlist[pk].user # u)
                        => /\ pk \notin listed_playlists(u)
                           /\ playlist_detail(u, pk).status = "denied"
            /\ playlist_list(u).my_playlists =
                  {pk \in DOMAIN playlist : playlist[pk].user = u}
            /\ shown \subseteq others
            /\ Cardinality(shown) = IF Cardinality(others) < 10
                                    THEN Cardinality(others) ELSE 10
            /\ \A pk \in others \ shown : \A q \in shown : q > pk

C6_Witness ==
    \E u \in Users, pk \in DOMAIN playlist :
        /\ playlist[pk].is_public
        /\ playlist[pk].user # u
        /\ playlist_detail(u, pk).status = "ok"
        /\ pk \notin listed_playlists(u)

(***************************************************************************)
(* Engagement: favorites, ratings, comments, plays, playlist membership.   *)
(***************************************************************************)
\* Favorite.objects.filter(user=u, song=pk)
favorite_rows(u, pk) == {r \in favorite : r.user = u /\ r.song = pk}

\* Favorite.Meta.unique_together: an INSERT of (u, pk) would be refused
favorite_unique_violation(u, pk) == favorite_rows(u, pk) # {}

\* INSERT INTO music_favorite
favorite_insert(u, pk) ==
    /\ favorite' = favorite \cup {[pk |-> favorite_seq, user |-> u, song |-> pk]}
    /\ favorite_seq' = favorite_seq + 1

\* favorite.delete(): DELETE FROM music_favorite WHERE id = fpk
favorite_delete(fpk) ==
    /\ favorite' = {r \in favorite : r.pk # fpk}
    /\ UNCHANGED favorite_seq

JsonFavorite(u, pk, is_favorite) ==
    [view |-> "toggle_favorite", user |-> u, pk |-> pk, status |-> "ok",
     is_favorite |-> is_favorite]

toggle_favorite_keeps_row(u, song_pk) ==
    IF ~song_exists(song_pk)
    THEN /\ response' = Response("toggle_favorite", u, song_pk, "not_found")
         /\ UNCHANGED <<store, request>>
    ELSE /\ IF favorite_rows(u, song_pk) = {}
            THEN favorite_insert(u, song_pk)
            ELSE UNCHANGED <<favorite, favorite_seq>>
         /\ response' = JsonFavorite(u, song_pk, favorite_rows(u, song_pk) = {})
         /\ UNCHANGED <<users, library, catalog, rating, rating_seq, comment, comment_seq,
                        playhistory, playhistory_seq, playlists, request>>

\* toggle_favorite, one request at a time: get_or_create, then delete the row
\* that was found
toggle_favorite(u, song_pk) ==
    IF ~song_exists(song_pk)
    THEN /\ response' = Response("toggle_favorite", u, song_pk, "not_found")
         /\ UNCHANGED <<store, request>>
    ELSE LET found == favorite_rows(u, song_pk)
             created == found = {}
         IN  /\ IF created
                THEN favorite_insert(u, song_pk)
                ELSE /\ favorite' = {r \in favorite : r \notin found}
                     /\ UNCHANGED favorite_seq
             /\ response' = JsonFavorite(u, song_pk, created)
             /\ UNCHANGED <<users, library, catalog, rating, rating_seq, comment, comment_seq,
                            playhistory, playhistory_seq, playlists, request>>

\* favorites: the songs of the caller's Favorite rows
favorites(u) == {r.song : r \in {f \in favorite : f.user = u}}

\* Rating.rating choices: range(1, 6)
RatingChoices == 1..5

\* a POST without the rating field
NoRating == -1

rating_form_accepts_all(rating_value) == TRUE

\* RatingForm.is_valid(): the field is required and must be one of the choices
rating_form_valid(rating_value) ==
    rating_value # NoRating /\ rating_value \in RatingChoices

\* Rating.objects.filter(user=u, song=pk)
rating_rows(u, pk) == {r \in rating : r.user = u /\ r.song = pk}

\* INSERT INTO music_rating
rating_insert(u, pk, rating_value) ==
    /\ rating' = rating \cup {[pk |-> rating_seq, user |-> u, song |-> pk,
                               rating |-> rating_value]}
    /\ rating_seq' = rating_seq + 1

\* UPDATE music_rating SET rating = rating_value WHERE id IN rpks
rating_update(rpks, rating_value) ==
    /\ rating' = {IF r.pk \in rpks THEN [r EXCEPT !.rating = rating_value] ELSE r :
                     r \in rating}
    /\ UNCHANGED rating_seq

RatingResponse(u, pk, status, rating_value) ==
    [view |-> "add_rating", user |-> u, pk |-> pk, status |-> status,
     rating |-> rating_value]

add_rating_always_inserts(u, song_pk, rating_value) ==
    IF ~song_exists(song_pk)
    THEN /\ response' = Response("add_rating", u, song_pk, "not_found")
         /\ UNCHANGED <<store, request>>
    ELSE IF ~rating_form_valid(rating_value)
    THEN /\ response' = Response("add_rating", u, song_pk, "invalid")
         /\ UNCHANGED <<store, request>>
    ELSE /\ rating_insert(u, song_pk, rating_value)
         /\ response' = RatingResponse(u, song_pk,
                            IF rating_rows(u, song_pk) = {} THEN "created" ELSE "updated",
                            rating_value)
         /\ UNCHANGED <<users, library, catalog, favorite, favorite_seq, comment, comment_seq,
                        playhistory, playhistory_seq, playlists, request>>

\* add_rating, one request at a time: update_or_create keyed by (user, song)
add_rating(u, song_pk, rating_value) ==
    IF ~song_exists(song_pk)
    THEN /\ response' = Response("add_rating", u, song_pk, "not_found")
         /\ UNCHANGED <<store, request>>
    ELSE IF ~rating_form_valid(rating_value)
    THEN /\ response' = Response("add_rating", u, song_pk, "invalid")
         /\ UNCHANGED <<store, request>>
    ELSE LET found == rating_rows(u, song_pk)
             created == found = {}
         IN  /\ IF created
                THEN rating_insert(u, song_pk, rating_value)
                ELSE rating_update({r.pk : r \in found}, rating_value)
             /\ response' = RatingResponse(u, song_pk,
                                IF created THEN "created" ELSE "updated",
                                rating_value)
             /\ UNCHANGED <<users, library, catalog, favorite, favorite_seq, comment, comment_seq,
                            playhistory, playhistory_seq, playlists, request>>

\* A submitted text: lead and trail count its leading and trailing whitespace
\* characters, core is the length from its first to its last other character
\* (0 when the text is empty or all whitespace).
Text(lead, core, trail) == [lead |-> lead, core |-> core, trail |-> trail]

\* len(text)
len(text) == text.lead + text.core + text.trail

\* str.strip()
strip(text) == Text(0, text.core, 0)

\* Comment.text max_length
CommentMaxLength == 1000

\* the least length clean_text accepts
CommentMinLength == 2

comment_form_no_minimum(text) ==
    LET value == strip(text)
    IN  len(value) # 0 /\ len(value) <= CommentMaxLength

\* CommentForm.is_valid(): the CharField strips the value, requires it and runs
\* the max_length validator on it; clean_text then strips and tests the length
comment_form_valid(text) ==
    LET value == strip(text)
    IN  /\ len(value) # 0
        /\ len(value) <= CommentMaxLength
        /\ len(strip(value)) >= CommentMinLength

\* CommentForm.cleaned_data['text']
comment_cleaned_text(text) == strip(strip(text))

\* add_comment
add_comment(u, song_pk, text) ==
    IF ~song_exists(song_pk)
    THEN /\ response' = Response("add_comment", u, song_pk, "not_found")
         /\ UNCHANGED <<store, request>>
    ELSE IF ~comment_form_valid(text)
    THEN /\ response' = Response("add_comment", u, song_pk, "invalid")
         /\ UNCHANGED <<store, request>>
    ELSE /\ comment' = comment \cup
                          {[pk |-> comment_seq, user |-> u, song |-> song_pk,
                            text |-> comment_cleaned_text(text)]}
         /\ comment_seq' = comment_seq + 1
         /\ response' = Response("add_comment", u, song_pk, "ok")
         /\ UNCHANGED <<users, library, catalog, favorite, favorite_seq, rating, rating_seq,
                        playhistory, playhistory_seq, playlists, request>>

\* play_song, one request at a time
play_song(u, pk) ==
    IF ~song_exists(pk)
    THEN /\ response' = Response("play_song", u, pk, "not_found")
         /\ UNCHANGED <<store, request>>
    ELSE /\ increment_play_count(pk)
         /\ playhistory' = playhistory \cup
                              {[pk |-> playhistory_seq, user |-> u, song |-> pk]}
         /\ playhistory_seq' = playhistory_seq + 1
         /\ response' = Response("play_song", u, pk, "ok")
         /\ UNCHANGED <<users, library, song_seq, favorite, favorite_seq, rating, rating_seq,
                        comment, comment_seq, playlists, request>>

\* play_history: the songs of the caller's PlayHistory rows
play_history(u) == {r.song : r \in {h \in playhistory : h.user = u}}

\* user_stats, Count('song') per song of the caller's PlayHistory rows
plays_of(u, pk) == Cardinality({h \in playhistory : h.user = u /\ h.song = pk})

\* the slice [:10] of user_stats
MostPlayedLimit == 10

\* user_stats: the songs that order_by('-play_count')[:10] can return (rows of
\* equal count come in the order the database chooses)
most_played_songs(u) ==
    {pk \in play_history(u) :
        Cardinality({q \in play_history(u) : plays_of(u, q) > plays_of(u, pk)})
            < MostPlayedLimit}

\* what add_to_playlist and remove_from_playlist answer, with the playlist
\* the request named
Membership(view, u, song_pk, playlist_pk, status) ==
    [view |-> view, user |-> u, pk |-> song_pk, status |-> status,
     playlist |-> playlist_pk]

add_to_playlist_collaborators(u, song_pk, method, playlist_id) ==
    IF ~song_exists(song_pk)
    THEN /\ response' = Membership("add_to_playlist", u, song_pk, playlist_id,
                                   "not_found")
         /\ UNCHANGED <<store, request>>
    ELSE IF method # "POST"
    THEN /\ response' = Membership("add_to_playlist", u, song_pk, 0, "form")
         /\ UNCHANGED <<store, request>>
    ELSE IF ~(\/ playlist_owned_by(u, playlist_id)
              \/ playlist_exists(playlist_id) /\ playlist[playlist_id].is_collaborative)
    THEN /\ response' = Membership("add_to_playlist", u, song_pk, playlist_id,
                                   "not_found")
         /\ UNCHANGED <<store, request>>
    ELSE /\ playlist' = [playlist EXCEPT ![playlist_id].songs = @ \cup {song_pk}]
         /\ response' = Membership("add_to_playlist", u, song_pk, playlist_id,
                            IF song_pk \in playlist[playlist_id].songs
                            THEN "already" ELSE "ok")
         /\ UNCHANGED <<users, playlist_seq, library, catalog, engagement, request>>

\* add_to_playlist
add_to_playlist(u, song_pk, method, playlist_id) ==
    IF ~song_exists(song_pk)
    THEN /\ response' = Membership("add_to_playlist", u, song_pk, playlist_id,
                                   "not_found")
         /\ UNCHANGED <<store, request>>
    ELSE IF method # "POST"
    THEN /\ response' = Membership("add_to_playlist", u, song_pk, 0, "form")
         /\ UNCHANGED <<store, request>>
    ELSE IF ~playlist_owned_by(u, playlist_id)
    THEN /\ response' = Membership("add_to_playlist", u, song_pk, playlist_id,
                                   "not_found")
         /\ UNCHANGED <<store, request>>
    ELSE /\ playlist' = [playlist EXCEPT ![playlist_id].songs = @ \cup {song_pk}]
         /\ response' = Membership("add_to_playlist", u, song_pk, playlist_id,
                            IF song_pk \in playlist[playlist_id].songs
                            THEN "already" ELSE "ok")
         /\ UNCHANGED <<users, playlist_seq, library, catalog, engagement, request>>

remove_from_playlist_clears(u, playlist_pk, song_pk) ==
    IF ~playlist_owned_by(u, playlist_pk) \/ ~song_exists(song_pk)
    THEN /\ response' = Membership("remove_from_playlist", u, song_pk,
                                   playlist_pk, "not_found")
         /\ UNCHANGED <<store, request>>
    ELSE /\ playlist' = [playlist EXCEPT ![playlist_pk].songs = {}]
         /\ response' = Membership("remove_from_playlist", u, song_pk,
                                   playlist_pk, "ok")
         /\ UNCHANGED <<users, playlist_seq, library, catalog, engagement, request>>

\* remove_from_playlist, POST
remove_from_playlist(u, playlist_pk, song_pk) ==
    IF ~playlist_owned_by(u, playlist_pk) \/ ~song_exists(song_pk)
    THEN /\ response' = Membership("remove_from_playlist", u, song_pk,
                                   playlist_pk, "not_found")
         /\ UNCHANGED <<store, request>>
    ELSE /\ playlist' = [playlist EXCEPT ![playlist_pk].songs = @ \ {song_pk}]
         /\ response' = Membership("remove_from_playlist", u, song_pk,
                                   playlist_pk, "ok")
         /\ UNCHANGED <<users, playlist_seq, library, catalog, engagement, request>>

(***************************************************************************)
(* SpecFavorite: uploads, deletions and favorite toggles, one request at a *)
(* time.                                                                   *)
(***************************************************************************)
NextFavorite ==
    \/ \E u \in Users, m \in Methods, v \in BOOLEAN, pub \in BOOLEAN :
          /\ song_seq <= MaxSongs
          /\ upload_song(u, m, v, pub)
    \/ \E u \in Users, pk \in SongPks : delete_song(u, pk)
    \/ \E u \in Users, pk \in SongPks :
          /\ favorite_seq <= MaxFavorites
          /\ toggle_favorite(u, pk)

SpecFavorite == Init /\ [][NextFavorite]_vars

\* C8: toggle_favorite(U, S) inserts the Favorite row of (U, S) when it is
\* absent and deletes it when it is present, and answers with the new state:
\* every call flips the existence of the row (so after k successive calls the
\* row exists iff k is odd, and true then false leaves no row), at most one
\* row exists, and the rows of other users and songs are untouched.
C8_ToggleFlipsAndReports ==
    [][LET u == response'.user
           pk == response'.pk
       IN  (response'.view = "toggle_favorite" /\ pk \in DOMAIN song) =>
              LET had == favorite_rows(u, pk) # {}
                  after == {r \in favorite' : r.user = u /\ r.song = pk}
              IN  /\ (after # {}) = ~had
                  /\ Cardinality(after) <= 1
                  /\ response'.status = "ok"
                  /\ response'.is_favorite = (after # {})
                  /\ favorite' \ after = favorite \ favorite_rows(u, pk)]_vars

C8_Witness ==
    \E u \in Users, pk \in DOMAIN song :
        /\ response = JsonFavorite(u, pk, FALSE)
        /\ favorite = {}
        /\ favorite_seq = 2

(***************************************************************************)
(* SpecRating: uploads and ratings, one request at a time; at most          *)
(* MaxRatings rows are ever inserted, updates are not capped.               *)
(***************************************************************************)
RatingInputs == {NoRating, 0, 3, 5, 6}

NextRating ==
    \/ \E u \in Users :
          /\ song_seq <= MaxSongs
          /\ upload_song(u, "POST", TRUE, TRUE)
    \/ \E u \in Users, pk \in SongPks, v \in RatingInputs :
          /\ rating_seq <= MaxRatings \/ rating_rows(u, pk) # {}
          /\ add_rating(u, pk, v)

SpecRating == Init /\ [][NextRating]_vars

\* C10: add_rating is an upsert keyed by (user, song): after a call by U on S
\* with a value in 1..5 exactly one Rating row of (U, S) exists and holds the
\* value of that call (so 3 then 5 leaves one row with value 5), and the
\* ratings of other users and of other songs are unchanged.
C10_RatingUpsert ==
    [][LET u  == response'.user
           pk == response'.pk
       IN  (response'.view = "add_rating"
              /\ response'.status \in {"created", "updated"})
           => LET v     == response'.rating
                  after == {r \in rating' : r.user = u /\ r.song = pk}
              IN  /\ v \in 1..5
                  /\ Cardinality(after) = 1
                  /\ \A r \in after : r.rating = v
                  /\ response'.status =
                        IF rating_rows(u, pk) = {} THEN "created" ELSE "updated"
                  /\ rating' \ after = rating \ rating_rows(u, pk)]_vars

C10_Witness ==
    \E u \in Users, pk \in DOMAIN song :
        /\ response = RatingResponse(u, pk, "updated", 5)
        /\ Cardinality(rating_rows(u, pk)) = 1
        /\ \A r \in rating_rows(u, pk) : r.rating = 5
        /\ \E r \in rating : r.user # u /\ r.song = pk /\ r.rating = 3

\* C11: a rating value outside 1..5, or a missing one, is rejected before
\* persistence: the request answers "invalid" and leaves the Rating table as it
\* was, so every stored Rating.rating is an integer in 1..5.
C11_RatingRange ==
    /\ [](\A r \in rating : r.rating \in 1..5)
    /\ [][(response'.view = "add_rating" /\ response'.status = "invalid")
             => UNCHANGED store]_vars

C11_Witness ==
    /\ response.view = "add_rating"
    /\ response.status = "invalid"
    /\ \E r \in rating : r.user = response.user /\ r.song = response.pk

(***************************************************************************)
(* SpecEngage: every handler that fetches a song by its key, one request   *)
(* at a time, on a store of at most MaxEngagement rows per table.          *)
(***************************************************************************)
EngagePks == 1..MaxEngagement

\* a text the comment form rejects and one it accepts
EngageTexts == {Text(0, 1, 0), Text(1, 2, 1)}

NextEngage ==
    \/ \E u \in Users, pub \in BOOLEAN :
          /\ song_seq <= MaxEngagement
          /\ upload_song(u, "POST", TRUE, pub)
    \/ \E u \in Users, pk \in EngagePks, pub \in BOOLEAN :
          edit_song(u, pk, "POST", TRUE, pub)
    \/ \E u \in Users, pk \in EngagePks :
          /\ song_exists(pk) => song[pk].download_count < MaxEngagement
          /\ download_song(u, pk)
    \/ \E u \in Users, pk \in EngagePks :
          /\ playhistory_seq <= MaxEngagement
          /\ play_song(u, pk)
    \/ \E u \in Users, pk \in EngagePks :
          /\ favorite_seq <= MaxEngagement
          /\ toggle_favorite(u, pk)
    \/ \E u \in Users, pk \in EngagePks, v \in RatingInputs :
          /\ rating_seq <= MaxEngagement
          /\ add_rating(u, pk, v)
    \/ \E u \in Users, pk \in EngagePks, text \in EngageTexts :
          /\ comment_seq <= MaxEngagement
          /\ add_comment(u, pk, text)
    \/ \E u \in Users, pub \in BOOLEAN :
          /\ playlist_seq <= MaxEngagement
          /\ create_playlist(u, "POST", TRUE, pub, FALSE)
    \/ \E u \in Users, pk \in EngagePks, m \in Methods, p \in EngagePks :
          add_to_playlist(u, pk, m, p)

SpecEngage == Init /\ [][NextEngage]_vars

\* C2: every handler that fetches a song by identifier (play_song,
\* toggle_favorite, add_comment, add_rating, add_to_playlist, download_song)
\* is denied when the song is private and the caller is not its uploader: the
\* request writes no PlayHistory, Favorite, Comment, Rating or membership row
\* and leaves play_count as it was.
C2_PrivateSongDeniedEverywhere ==
    [][LET u == response'.user
           pk == response'.pk
       IN  (/\ response'.view \in {"play_song", "toggle_favorite", "add_comment",
                                   "add_rating", "add_to_playlist", "download_song"}
            /\ pk \in DOMAIN song
            /\ ~song[pk].is_public
            /\ song[pk].uploaded_by # u)
           => /\ response'.status = "denied"
              /\ UNCHANGED store]_vars

\* C7: once its owner has made a public song private with edit_song, the song
\* is returned to no other user by song_list, favorites, play_history,
\* user_stats (most played) or the playlist_detail of any playlist.
C7_PrivateSongLeavesEveryListing ==
    [][LET u == response'.user
           pk == response'.pk
       IN  (/\ response'.view = "edit_song"
            /\ pk \in DOMAIN song
            /\ song[pk].uploaded_by = u
            /\ song[pk].is_public
            /\ ~song'[pk].is_public)
           => \A v \in Users \ {u} :
                 /\ pk \notin song_list(v)'
                 /\ pk \notin favorites(v)'
                 /\ pk \notin play_history(v)'
                 /\ pk \notin most_played_songs(v)'
                 /\ \A p \in DOMAIN playlist' :
                       pk \notin playlist_detail(v, p)'.songs]_vars

(***************************************************************************)
(* Concurrent requests.  A worker handles one request; each query of the   *)
(* handler is one step, and steps of different workers interleave.         *)
(* get_or_create is SELECT, then INSERT, and after an IntegrityError a     *)
(* second SELECT; update_or_create is get_or_create, then UPDATE.          *)
(***************************************************************************)
idle(w) == request[w] = Idle

at(w, view, pc) == request[w].view = view /\ request[w].pc = pc

goto(w, pc) == request' = [request EXCEPT ![w].pc = pc]

done(w) == request' = [request EXCEPT ![w] = Idle]

\* toggle_favorite: get_object_or_404(Song, pk=song_pk)
tf_begin(w, u, song_pk) ==
    /\ idle(w)
    /\ IF ~song_exists(song_pk)
       THEN /\ response' = Response("toggle_favorite", u, song_pk, "not_found")
            /\ UNCHANGED request
       ELSE /\ request' = [request EXCEPT ![w] =
                              [view |-> "toggle_favorite", pc |-> "get",
                               user |-> u, song |-> song_pk, row |-> 0]]
            /\ UNCHANGED response
    /\ UNCHANGED store

\* toggle_favorite: get_or_create, the SELECT
tf_get(w) ==
    /\ at(w, "toggle_favorite", "get")
    /\ LET found == favorite_rows(request[w].user, request[w].song)
       IN  IF found = {}
           THEN goto(w, "create")
           ELSE \E r \in found :
                   request' = [request EXCEPT ![w].pc = "delete", ![w].row = r.pk]
    /\ UNCHANGED <<store, response>>

\* toggle_favorite: get_or_create, the INSERT (created = True ends the request)
tf_create(w) ==
    /\ at(w, "toggle_favorite", "create")
    /\ IF favorite_unique_violation(request[w].user, request[w].song)
       THEN /\ goto(w, "reget")
            /\ UNCHANGED <<store, response>>
       ELSE /\ favorite_insert(request[w].user, request[w].song)
            /\ response' = JsonFavorite(request[w].user, request[w].song, TRUE)
            /\ done(w)
            /\ UNCHANGED <<users, library, catalog, rating, rating_seq, comment, comment_seq,
                           playhistory, playhistory_seq, playlists>>

\* toggle_favorite: get_or_create, the SELECT after an IntegrityError (the
\* error is raised again when the row is gone)
tf_reget(w) ==
    /\ at(w, "toggle_favorite", "reget")
    /\ LET found == favorite_rows(request[w].user, request[w].song)
       IN  IF found = {}
           THEN /\ response' = Response("toggle_favorite", request[w].user,
                                        request[w].song, "error")
                /\ done(w)
           ELSE /\ \E r \in found :
                      request' = [request EXCEPT ![w].pc = "delete", ![w].row = r.pk]
                /\ UNCHANGED response
    /\ UNCHANGED store

\* toggle_favorite: favorite.delete() and is_favorite = False
tf_delete(w) ==
    /\ at(w, "toggle_favorite", "delete")
    /\ favorite_delete(request[w].row)
    /\ response' = JsonFavorite(request[w].user, request[w].song, FALSE)
    /\ done(w)
    /\ UNCHANGED <<users, library, catalog, rating, rating_seq, comment, comment_seq,
                   playhistory, playhistory_seq, playlists>>

\* Rating.Meta.unique_together: an INSERT of (u, pk) would be refused
rating_unique_violation(u, pk) == rating_rows(u, pk) # {}

\* add_rating: get_object_or_404 and RatingForm.is_valid()
ar_begin(w, u, song_pk, rating_value) ==
    /\ idle(w)
    /\ IF ~song_exists(song_pk)
       THEN /\ response' = Response("add_rating", u, song_pk, "not_found")
            /\ UNCHANGED request
       ELSE IF ~rating_form_valid(rating_value)
       THEN /\ response' = Response("add_rating", u, song_pk, "invalid")
            /\ UNCHANGED request
       ELSE /\ request' = [request EXCEPT ![w] =
                              [view |-> "add_rating", pc |-> "get",
                               user |-> u, song |-> song_pk, row |-> 0,
                               rating |-> rating_value]]
            /\ UNCHANGED response
    /\ UNCHANGED store

\* add_rating: update_or_create, the SELECT
ar_get(w) ==
    /\ at(w, "add_rating", "get")
    /\ LET found == rating_rows(request[w].user, request[w].song)
       IN  IF found = {}
           THEN goto(w, "create")
           ELSE \E r \in found :
                   request' = [request EXCEPT ![w].pc = "update", ![w].row = r.pk]
    /\ UNCHANGED <<store, response>>

\* add_rating: update_or_create, the INSERT (created = True ends the request)
ar_create(w) ==
    /\ at(w, "add_rating", "create")
    /\ IF rating_unique_violation(request[w].user, request[w].song)
       THEN /\ goto(w, "reget")
            /\ UNCHANGED <<store, response>>
       ELSE /\ rating_insert(request[w].user, request[w].song, request[w].rating)
            /\ response' = RatingResponse(request[w].user, request[w].song,
                                          "created", request[w].rating)
            /\ done(w)
            /\ UNCHANGED <<users, library, catalog, favorite, favorite_seq, comment, comment_seq,
                           playhistory, playhistory_seq, playlists>>

\* add_rating: update_or_create, the SELECT after an IntegrityError
ar_reget(w) ==
    /\ at(w, "add_rating", "reget")
    /\ LET found == rating_rows(request[w].user, request[w].song)
       IN  IF found = {}
           THEN /\ response' = Response("add_rating", request[w].user,
                                        request[w].song, "error")
                /\ done(w)
           ELSE /\ \E r \in found :
                      request' = [request EXCEPT ![w].pc = "update", ![w].row = r.pk]
                /\ UNCHANGED response
    /\ UNCHANGED store

\* add_rating: update_or_create, the UPDATE of the row that was found
ar_update(w) ==
    /\ at(w, "add_rating", "update")
    /\ rating_update({request[w].row}, request[w].rating)
    /\ response' = RatingResponse(request[w].user, request[w].song,
                                  "updated", request[w].rating)
    /\ done(w)
    /\ UNCHANGED <<users, library, catalog, favorite, favorite_seq, comment, comment_seq,
                   playhistory, playhistory_seq, playlists>>

(***************************************************************************)
(* SpecRace: concurrent toggle_favorite and add_rating requests on one     *)
(* uploaded song.                                                          *)
(***************************************************************************)
NextRace ==
    \/ \E u \in Users :
          /\ song_seq <= MaxEngagement
          /\ \A w \in Workers : idle(w)
          /\ upload_song(u, "POST", TRUE, TRUE)
    \/ \E w \in Workers, u \in Users, pk \in EngagePks :
          /\ favorite_seq <= MaxFavorites
          /\ tf_begin(w, u, pk)
    \/ \E w \in Workers : tf_get(w)
    \/ \E w \in Workers : tf_create(w)
    \/ \E w \in Workers : tf_reget(w)
    \/ \E w \in Workers : tf_delete(w)
    \/ \E w \in Workers, u \in Users, pk \in EngagePks, v \in RatingInputs :
          /\ rating_seq <= MaxRatings
          /\ ar_begin(w, u, pk, v)
    \/ \E w \in Workers : ar_get(w)
    \/ \E w \in Workers : ar_create(w)
    \/ \E w \in Workers : ar_reget(w)
    \/ \E w \in Workers : ar_update(w)

SpecRace == Init /\ [][NextRace]_vars

\* C9: in every reachable state of concurrent toggle_favorite and add_rating
\* requests there is at most one Favorite row and at most one Rating row per
\* (user, song), and the value a toggle_favorite call returns says whether the
\* Favorite row exists when that call completes.
C9_UniqueRowsAndTruthfulToggle ==
    /\ [](\A u \in Users, pk \in DOMAIN song :
             /\ Cardinality(favorite_rows(u, pk)) <= 1
             /\ Cardinality(rating_rows(u, pk)) <= 1)
    /\ [][\A w \in Workers :
             (/\ request[w].view = "toggle_favorite"
              /\ request'[w] = Idle
              /\ response'.status = "ok")
             => response'.is_favorite =
                   (\E r \in favorite' :
                       r.user = request[w].user /\ r.song = request[w].song)]_vars

(***************************************************************************)
(* SpecComment: uploads and comments, one request at a time; at most       *)
(* MaxComments Comment rows are ever inserted.                             *)
(***************************************************************************)
MaxComments == 2

\* submitted texts: empty, all whitespace, and cores around both length limits,
\* each with and without surrounding whitespace
CommentTexts ==
    {Text(0, 0, 0), Text(1, 0, 0)} \cup
    {Text(pad, core, pad) :
        pad \in 0..1,
        core \in {1, CommentMinLength, CommentMaxLength, CommentMaxLength + 1}}

NextComment ==
    \/ \E u \in Users :
          /\ song_seq <= MaxEngagement
          /\ upload_song(u, "POST", TRUE, TRUE)
    \/ \E u \in Users, pk \in EngagePks, text \in CommentTexts :
          /\ comment_seq <= MaxComments \/ ~comment_form_valid(text)
          /\ add_comment(u, pk, text)

SpecComment == Init /\ [][NextComment]_vars

\* C12: add_comment on an existing song with a text whose trimmed length is
\* below 2 or above 1000 is rejected and creates no Comment row; with any other
\* text it creates exactly one Comment row, owned by the caller on that song,
\* holding the text without its leading and trailing whitespace; so every
\* stored comment has trimmed length between 2 and 1000.
C12_CommentTrimmedAndBounded ==
    /\ [](\A r \in comment :
             /\ r.text.lead = 0 /\ r.text.trail = 0
             /\ r.text.core \in 2..1000)
    /\ [][LET u  == response'.user
              pk == response'.pk
          IN  \A text \in CommentTexts :
                 (response'.view = "add_comment" /\ pk \in DOMAIN song
                    /\ add_comment(u, pk, text))
                 => IF text.core < 2 \/ text.core > 1000
                    THEN /\ response'.status = "invalid"
                         /\ UNCHANGED store
                    ELSE /\ response'.status = "ok"
                         /\ \E r \in comment' \ comment :
                               /\ comment' = comment \cup {r}
                               /\ r.user = u /\ r.song = pk
                               /\ r.text = Text(0, text.core, 0)
                         /\ UNCHANGED <<library, catalog, favorite, rating, playhistory,
                                        playlists>>]_vars

C12_Witness ==
    /\ response.view = "add_comment"
    /\ response.status = "invalid"
    /\ \E r \in comment :
          /\ r.user = response.user /\ r.song = response.pk
          /\ r.text = Text(0, 1000, 0)

(***************************************************************************)
(* SpecPlay: uploads and plays, one request at a time; at most MaxPlays    *)
(* plays.                                                                  *)
(***************************************************************************)
MaxPlays == 3

\* PlayHistory.objects.filter(song=pk)
history_of_song(pk) == {h \in playhistory : h.song = pk}

NextPlay ==
    \/ \E u \in Users, pub \in BOOLEAN :
          /\ song_seq <= MaxSongs
          /\ upload_song(u, "POST", TRUE, pub)
    \/ \E u \in Users, pk \in SongPks :
          /\ playhistory_seq <= MaxPlays
          /\ play_song(u, pk)

SpecPlay == Init /\ [][NextPlay]_vars

\* C13: each play_song call by U on an existing song S adds exactly one to
\* S.play_count and exactly one PlayHistory row of (U, S), and changes no other
\* song and no other history row; so after N successive calls the counter has
\* grown by N and N rows were added (with plays as the only writers, the
\* counter of a song equals the number of its PlayHistory rows).
C13_PlayCountsEachCall ==
    /\ [](\A pk \in DOMAIN song :
             song[pk].play_count = Cardinality(history_of_song(pk)))
    /\ [][LET u  == response'.user
              pk == response'.pk
          IN  (response'.view = "play_song" /\ pk \in DOMAIN song)
              => /\ response'.status = "ok"
                 /\ song' = [song EXCEPT ![pk].play_count = @ + 1]
                 /\ \E h \in playhistory' \ playhistory :
                       /\ playhistory' = playhistory \cup {h}
                       /\ h.user = u /\ h.song = pk
                 /\ UNCHANGED <<favorite, rating, comment, playlists>>]_vars

C13_Witness ==
    \E u \in Users, pk \in DOMAIN song, other \in DOMAIN song :
        /\ other # pk
        /\ response = Response("play_song", u, pk, "ok")
        /\ song[pk].play_count = 3
        /\ Cardinality({h \in playhistory : h.user = u /\ h.song = pk}) = 3
        /\ song[other].play_count = 0

(***************************************************************************)
(* Concurrent play_song, download_song and edit_song requests.  A handler  *)
(* loads the Song row into its own instance, changes the instance and      *)
(* saves it; the load and every save are separate steps, committed one by  *)
(* one.                                                                    *)
(***************************************************************************)
\* play_song: get_object_or_404(Song, pk=pk)
ps_begin(w, u, pk) ==
    /\ idle(w)
    /\ IF ~song_exists(pk)
       THEN /\ response' = Response("play_song", u, pk, "not_found")
            /\ UNCHANGED request
       ELSE /\ request' = [request EXCEPT ![w] =
                              [view |-> "play_song", pc |-> "save",
                               user |-> u, song |-> pk, row |-> song[pk]]]
            /\ UNCHANGED response
    /\ UNCHANGED store

\* play_song: song.increment_play_count(), on the loaded instance; the save
\* writes the play_count column only, and fails when the row is gone
ps_save(w) ==
    /\ at(w, "play_song", "save")
    /\ LET pk  == request[w].song
           row == [request[w].row EXCEPT !.play_count = @ + 1]
       IN  IF ~song_exists(pk)
           THEN /\ response' = Response("play_song", request[w].user, pk, "error")
                /\ done(w)
                /\ UNCHANGED store
           ELSE /\ song' = [song EXCEPT ![pk].play_count = row.play_count]
                /\ request' = [request EXCEPT ![w].pc = "create", ![w].row = row]
                /\ UNCHANGED <<users, library, song_seq, engagement, playlists, response>>

\* play_song: PlayHistory.objects.create(user=request.user, song=song)
ps_create(w) ==
    /\ at(w, "play_song", "create")
    /\ playhistory' = playhistory \cup
                         {[pk |-> playhistory_seq, user |-> request[w].user,
                           song |-> request[w].song]}
    /\ playhistory_seq' = playhistory_seq + 1
    /\ response' = Response("play_song", request[w].user, request[w].song, "ok")
    /\ done(w)
    /\ UNCHANGED <<users, library, catalog, favorite, favorite_seq, rating, rating_seq,
                   comment, comment_seq, playlists>>

\* play_song: PlayHistory.objects.create raises a database error; nothing in
\* the view undoes the save made before it
ps_fail(w) ==
    /\ at(w, "play_song", "create")
    /\ response' = Response("play_song", request[w].user, request[w].song, "error")
    /\ done(w)
    /\ UNCHANGED store

\* download_song: get_object_or_404 and the permission test
ds_begin(w, u, pk) ==
    /\ idle(w)
    /\ IF ~song_exists(pk)
       THEN /\ response' = Response("download_song", u, pk, "not_found")
            /\ UNCHANGED request
       ELSE IF song_hidden_from(u, pk)
       THEN /\ response' = Response("download_song", u, pk, "denied")
            /\ UNCHANGED request
       ELSE /\ request' = [request EXCEPT ![w] =
                              [view |-> "download_song", pc |-> "save",
                               user |-> u, song |-> pk, row |-> song[pk]]]
            /\ UNCHANGED response
    /\ UNCHANGED store

\* download_song: song.increment_download_count(), on the loaded instance
ds_save(w) ==
    /\ at(w, "download_song", "save")
    /\ LET pk == request[w].song
       IN  IF ~song_exists(pk)
           THEN /\ response' = Response("download_song", request[w].user, pk, "error")
                /\ UNCHANGED store
           ELSE /\ song' = [song EXCEPT ![pk].download_count =
                                           request[w].row.download_count + 1]
                /\ response' = Response("download_song", request[w].user, pk, "ok")
                /\ UNCHANGED <<users, library, song_seq, engagement, playlists>>
    /\ done(w)

\* edit_song, a POST with a valid form: get_object_or_404, the permission
\* test, and SongUploadForm(..., instance=song)
es_begin(w, u, pk, is_public) ==
    /\ idle(w)
    /\ IF ~song_exists(pk)
       THEN /\ response' = Response("edit_song", u, pk, "not_found")
            /\ UNCHANGED request
       ELSE IF song_mutation_refused(u, pk)
       THEN /\ response' = Response("edit_song", u, pk, "denied")
            /\ UNCHANGED request
       ELSE /\ request' = [request EXCEPT ![w] =
                              [view |-> "edit_song", pc |-> "save",
                               user |-> u, song |-> pk,
                               row |-> [song[pk] EXCEPT !.is_public = is_public]]]
            /\ UNCHANGED response
    /\ UNCHANGED store

\* edit_song: form.save() writes every column of the loaded instance (and
\* inserts the row again when it is gone)
es_save(w) ==
    /\ at(w, "edit_song", "save")
    /\ LET pk == request[w].song
       IN  song' = [p \in DOMAIN song \cup {pk} |->
                       IF p = pk THEN request[w].row ELSE song[p]]
    /\ response' = Response("edit_song", request[w].user, request[w].song, "ok")
    /\ done(w)
    /\ UNCHANGED <<users, library, song_seq, engagement, playlists>>

(***************************************************************************)
(* SpecPlayRace: concurrent play_song requests.                            *)
(***************************************************************************)
NextPlayRace ==
    \/ \E u \in Users :
          /\ song_seq <= MaxEngagement
          /\ \A w \in Workers : idle(w)
          /\ upload_song(u, "POST", TRUE, TRUE)
    \/ \E w \in Workers, u \in Users, pk \in EngagePks :
          /\ playhistory_seq <= MaxPlays
          /\ ps_begin(w, u, pk)
    \/ \E w \in Workers : ps_save(w)
    \/ \E w \in Workers : ps_create(w)

SpecPlayRace == Init /\ [][NextPlayRace]_vars

\* C14: under concurrent play_song requests no increment is lost: whenever
\* every started play has completed, the play_count of each song equals the
\* number of PlayHistory rows the plays added for it.
C14_NoLostPlay ==
    (\A w \in Workers : idle(w))
        => \A pk \in DOMAIN song :
              song[pk].play_count = Cardinality(history_of_song(pk))

(***************************************************************************)
(* SpecPlayFault: concurrent play_song requests whose PlayHistory insert   *)
(* may fail.                                                               *)
(***************************************************************************)
NextPlayFault ==
    \/ \E u \in Users :
          /\ song_seq <= MaxEngagement
          /\ \A w \in Workers : idle(w)
          /\ upload_song(u, "POST", TRUE, TRUE)
    \/ \E w \in Workers, u \in Users, pk \in EngagePks :
          /\ playhistory_seq <= MaxPlays
          /\ song_exists(pk) => song[pk].play_count < MaxPlays
          /\ ps_begin(w, u, pk)
    \/ \E w \in Workers : ps_save(w)
    \/ \E w \in Workers : ps_create(w)
    \/ \E w \in Workers : ps_fail(w)

SpecPlayFault == Init /\ [][NextPlayFault]_vars

\* C15: the counter increment and the PlayHistory insert of play_song are one
\* unit: in no state of the store, whether seen by another request while a
\* play is under way or left behind by a play whose insert failed, is the
\* play_count of a song ahead of the number of its PlayHistory rows.
C15_CounterNeverAheadOfHistory ==
    \A pk \in DOMAIN song :
        song[pk].play_count <= Cardinality(history_of_song(pk))

(***************************************************************************)
(* SpecCounterRace: concurrent play_song, download_song and edit_song      *)
(* requests.                                                               *)
(***************************************************************************)
NextCounterRace ==
    \/ \E u \in Users :
          /\ song_seq <= MaxEngagement
          /\ \A w \in Workers : idle(w)
          /\ upload_song(u, "POST", TRUE, TRUE)
    \/ \E w \in Workers, u \in Users, pk \in EngagePks :
          /\ playhistory_seq <= MaxEngagement
          /\ ps_begin(w, u, pk)
    \/ \E w \in Workers : ps_save(w)
    \/ \E w \in Workers : ps_create(w)
    \/ \E w \in Workers, u \in Users, pk \in EngagePks :
          /\ song_exists(pk) => song[pk].download_count < MaxDownloads
          /\ ds_begin(w, u, pk)
    \/ \E w \in Workers : ds_save(w)
    \/ \E w \in Workers, u \in Users, pk \in EngagePks, pub \in BOOLEAN :
          es_begin(w, u, pk, pub)
    \/ \E w \in Workers : es_save(w)

SpecCounterRace == Init /\ [][NextCounterRace]_vars

\* C16: over every interleaving of plays, downloads and edits of an existing
\* song its play_count and download_count never decrease: a step leaves each
\* of them as it was or adds one to it.
C16_CountersNeverDecrease ==
    [][\A pk \in DOMAIN song \cap DOMAIN song' :
          /\ song'[pk].play_count \in {song[pk].play_count, song[pk].play_count + 1}
          /\ song'[pk].download_count \in
                {song[pk].download_count, song[pk].download_count + 1}]_vars

(***************************************************************************)
(* SpecUpload: uploads with every kind of form, one request at a time.     *)
(***************************************************************************)
\* how the form names its artist: a choice in the select, or a new name
ArtistEntries ==
    {<<0, NoName>>, <<1, NoName>>, <<0, Name(0, "Radiohead", 0)>>,
     <<0, Name(1, "Radiohead", 1)>>, <<0, Name(0, "Muse", 0)>>}

\* <<fields_valid, file_too_large>>
FormValidities == {<<TRUE, FALSE>>, <<FALSE, FALSE>>, <<TRUE, TRUE>>}

UploadForms ==
    {SongForm(v[1], a[1], a[2], 0, t, 0, g, v[2], TRUE) :
        v \in FormValidities, a \in ArtistEntries,
        t \in {NoName, Name(1, "Kid A", 0)},
        g \in {NoName, Name(0, "Rock", 1)}}

NextUpload ==
    \E u \in Users, form \in UploadForms :
        /\ song_seq <= MaxSongs
        /\ upload_song_form(u, "POST", form)

SpecUpload == Init /\ [][NextUpload]_vars

\* the rows of a table with a given natural key
rows_with(rows, key) == {r \in rows : r.key = key}

\* C17: catalog resolution during an upload is idempotent per natural key after
\* trimming: in every reachable state, resolving an artist name (a genre name,
\* an album title with its artist), with or without surrounding spaces, succeeds,
\* returns the one row that has the trimmed key afterwards, and creates nothing
\* when a row with that key was there already; so a second resolution of the
\* key returns the row of the first.  What uploads stored keeps each key once,
\* and every song refers to a row of the artist table.
C17_ResolutionIdempotent ==
    /\ \A r, s \in artist : r.key = s.key => r = s
    /\ \A r, s \in album : r.key = s.key => r = s
    /\ \A r, s \in genre : r.key = s.key => r = s
    /\ \A pk \in DOMAIN song : \E r \in artist : r.pk = song[pk].artist
    /\ \A form \in UploadForms :
          (form.artist = 0 /\ form.artist_name.word # "")
          => LET cleaned == clean(form)
                 after == cleaned.tables
                 a_key == [name |-> Name(0, form.artist_name.word, 0)]
                 b_key == [title |-> Name(0, form.album_title.word, 0),
                           artist |-> cleaned.artist]
                 g_key == [name |-> Name(0, form.genre_name.word, 0)]
             IN  /\ cleaned.raised # "error"
                 /\ {r.pk : r \in rows_with(after.artist, a_key)} = {cleaned.artist}
                 /\ rows_with(artist, a_key) # {} => after.artist = artist
                 /\ after.artist \subseteq artist \cup rows_with(after.artist, a_key)
                 /\ form.album_title.word # "" =>
                       /\ {r.pk : r \in rows_with(after.album, b_key)} = {cleaned.album}
                       /\ rows_with(album, b_key) # {} => after.album = album
                       /\ after.album \subseteq album \cup rows_with(after.album, b_key)
                 /\ form.genre_name.word # "" =>
                       /\ {r.pk : r \in rows_with(after.genre, g_key)} = {cleaned.genre}
                       /\ rows_with(genre, g_key) # {} => after.genre = genre
                       /\ after.genre \subseteq genre \cup rows_with(after.genre, g_key)

C17_Witness ==
    /\ response = Response("upload_song", "sam", 2, "ok")
    /\ DOMAIN song = {1, 2}
    /\ song[1].uploaded_by = "ann"
    /\ song[1].artist = song[2].artist
    /\ song[1].album = song[2].album /\ song[1].album # 0
    /\ song[1].genre = song[2].genre /\ song[1].genre # 0
    /\ artist_seq = 2 /\ album_seq = 2 /\ genre_seq = 2
    /\ Cardinality(artist) = 1

\* C19: a song upload that validation rejects (a file above 50 MB, a missing
\* title or any other invalid field) leaves the persisted state unchanged: no
\* Song row and no Artist, Album or Genre row is created by it.
C19_RejectedUploadWritesNothing ==
    [][(response'.view = "upload_song" /\ response'.status = "invalid")
          => UNCHANGED store]_vars

(***************************************************************************)
(* Concurrent uploads.  Every query of SongUploadForm.clean and the final  *)
(* save of the song are separate steps.  Artist and Album have no          *)
(* uniqueness constraint on their natural key; Genre.name is unique.       *)
(***************************************************************************)
\* where clean goes after the artist is known
after_artist(form) ==
    IF chosen(album, form.album) = 0 /\ strip_name(form.album_title) # NoName
    THEN "album_get"
    ELSE IF chosen(genre, form.genre) = 0 /\ strip_name(form.genre_name) # NoName
    THEN "genre_get" ELSE "save"

\* where clean goes after the album is known
after_album(form) ==
    IF chosen(genre, form.genre) = 0 /\ strip_name(form.genre_name) # NoName
    THEN "genre_get" ELSE "save"

\* the request ends with a response and writes nothing more
finish(w, status) ==
    /\ response' = Response("upload_song", request[w].user, 0, status)
    /\ done(w)

artist_key(w) == [name |-> strip_name(strip_name(request[w].form.artist_name))]

album_key(w) == [title |-> strip_name(strip_name(request[w].form.album_title)),
                 artist |-> request[w].artist]

genre_key(w) == [name |-> strip_name(strip_name(request[w].form.genre_name))]

\* upload_song, a POST: the fields are cleaned and clean() starts
up_begin(w, u, form) ==
    /\ idle(w)
    /\ LET sel == chosen(artist, form.artist)
           start == [view |-> "upload_song", pc |-> "artist_get", user |-> u,
                     form |-> form, artist |-> sel,
                     album |-> chosen(album, form.album),
                     genre |-> chosen(genre, form.genre)]
       IN  IF sel = 0 /\ strip_name(form.artist_name) = NoName
           THEN /\ response' = Response("upload_song", u, 0, "invalid")
                /\ UNCHANGED request
           ELSE /\ request' = [request EXCEPT ![w] =
                                  IF sel = 0 THEN start
                                  ELSE [start EXCEPT !.pc = after_artist(form)]]
                /\ UNCHANGED response
    /\ UNCHANGED store

\* Artist.objects.get_or_create: the SELECT
up_artist_get(w) ==
    /\ at(w, "upload_song", "artist_get")
    /\ LET found == rows_with(artist, artist_key(w))
       IN  IF Cardinality(found) > 1 THEN finish(w, "error")
           ELSE IF found = {}
           THEN goto(w, "artist_create") /\ UNCHANGED response
           ELSE /\ \E r \in found :
                      request' = [request EXCEPT
                                     ![w].artist = r.pk,
                                     ![w].pc = after_artist(request[w].form)]
                /\ UNCHANGED response
    /\ UNCHANGED store

\* Artist.objects.get_or_create: the INSERT, which no constraint refuses
up_artist_create(w) ==
    /\ at(w, "upload_song", "artist_create")
    /\ artist' = artist \cup {[pk |-> artist_seq, key |-> artist_key(w)]}
    /\ artist_seq' = artist_seq + 1
    /\ request' = [request EXCEPT ![w].artist = artist_seq,
                                  ![w].pc = after_artist(request[w].form)]
    /\ UNCHANGED <<users, album, album_seq, genre, genre_seq, catalog, engagement,
                   playlists, response>>

\* Album.objects.get_or_create: the SELECT
up_album_get(w) ==
    /\ at(w, "upload_song", "album_get")
    /\ LET found == rows_with(album, album_key(w))
       IN  IF Cardinality(found) > 1 THEN finish(w, "error")
           ELSE IF found = {}
           THEN goto(w, "album_create") /\ UNCHANGED response
           ELSE /\ \E r \in found :
                      request' = [request EXCEPT
                                     ![w].album = r.pk,
                                     ![w].pc = after_album(request[w].form)]
                /\ UNCHANGED response
    /\ UNCHANGED store

\* Album.objects.get_or_create: the INSERT, which no constraint refuses
up_album_create(w) ==
    /\ at(w, "upload_song", "album_create")
    /\ album' = album \cup {[pk |-> album_seq, key |-> album_key(w)]}
    /\ album_seq' = album_seq + 1
    /\ request' = [request EXCEPT ![w].album = album_seq,
                                  ![w].pc = after_album(request[w].form)]
    /\ UNCHANGED <<users, artist, artist_seq, genre, genre_seq, catalog, engagement,
                   playlists, response>>

\* Genre.objects.get_or_create: the SELECT
up_genre_get(w) ==
    /\ at(w, "upload_song", "genre_get")
    /\ LET found == rows_with(genre, genre_key(w))
       IN  IF found = {}
           THEN goto(w, "genre_create")
           ELSE \E r \in found :
                   request' = [request EXCEPT ![w].genre = r.pk, ![w].pc = "save"]
    /\ UNCHANGED <<store, response>>

\* Genre.objects.get_or_create: the INSERT, refused when the name is taken
up_genre_create(w) ==
    /\ at(w, "upload_song", "genre_create")
    /\ IF rows_with(genre, genre_key(w)) # {}
       THEN /\ goto(w, "genre_reget")
            /\ UNCHANGED <<genre, genre_seq>>
       ELSE /\ genre' = genre \cup {[pk |-> genre_seq, key |-> genre_key(w)]}
            /\ genre_seq' = genre_seq + 1
            /\ request' = [request EXCEPT ![w].genre = genre_seq, ![w].pc = "save"]
    /\ UNCHANGED <<users, artist, artist_seq, album, album_seq, catalog, engagement,
                   playlists, response>>

\* Genre.objects.get_or_create: the SELECT after the IntegrityError
up_genre_reget(w) ==
    /\ at(w, "upload_song", "genre_reget")
    /\ LET found == rows_with(genre, genre_key(w))
       IN  IF found = {} THEN finish(w, "error")
           ELSE /\ \E r \in found :
                      request' = [request EXCEPT ![w].genre = r.pk, ![w].pc = "save"]
                /\ UNCHANGED response
    /\ UNCHANGED store

\* the 50 MB test that ends clean(), is_valid(), and song.save()
up_save(w) ==
    /\ at(w, "upload_song", "save")
    /\ LET form == request[w].form
       IN  IF form.file_too_large \/ ~form.fields_valid \/ choice_errors(form)
           THEN /\ finish(w, "invalid")
                /\ UNCHANGED store
           ELSE /\ insert_song([uploaded_by |-> request[w].user,
                                title |-> form.title,
                                is_public |-> form.is_public,
                                play_count |-> 0, download_count |-> 0,
                                artist |-> request[w].artist,
                                album |-> request[w].album,
                                genre |-> request[w].genre])
                /\ response' = Response("upload_song", request[w].user, song_seq, "ok")
                /\ done(w)
                /\ UNCHANGED <<users, library, engagement, playlists>>

(***************************************************************************)
(* SpecUploadRace: concurrent uploads that name the same artist, album and *)
(* genre.                                                                  *)
(***************************************************************************)
RaceForms ==
    {SongForm(TRUE, 0, Name(0, "Radiohead", 0), 0, Name(1, "Kid A", 0),
              0, Name(0, "Rock", 1), FALSE, TRUE)}

NextUploadRace ==
    \/ \E w \in Workers, u \in Users, form \in RaceForms :
          /\ song_seq <= MaxSongs
          /\ up_begin(w, u, form)
    \/ \E w \in Workers : up_artist_get(w)
    \/ \E w \in Workers : up_artist_create(w)
    \/ \E w \in Workers : up_album_get(w)
    \/ \E w \in Workers : up_album_create(w)
    \/ \E w \in Workers : up_genre_get(w)
    \/ \E w \in Workers : up_genre_create(w)
    \/ \E w \in Workers : up_genre_reget(w)
    \/ \E w \in Workers : up_save(w)

SpecUploadRace == Init /\ [][NextUploadRace]_vars

\* C18: for every interleaving of uploads that name the same new artist, album
\* and genre, at most one row with each key exists, the uploaded songs refer to
\* the same artist, album and genre rows, and no upload, then or later, fails
\* with an error.
C18_ConcurrentResolutionSafe ==
    /\ \A r, s \in artist : r.key = s.key => r = s
    /\ \A r, s \in album : r.key = s.key => r = s
    /\ \A r, s \in genre : r.key = s.key => r = s
    /\ \A p, q \in DOMAIN song :
          /\ song[p].artist = song[q].artist
          /\ song[p].album = song[q].album
          /\ song[p].genre = song[q].genre
    /\ ~(response.view = "upload_song" /\ response.status = "error")

(***************************************************************************)
(* Deleting catalog rows: Model.delete() follows the on_delete of every    *)
(* foreign key that points at the row.  A null reference is 0.             *)
(***************************************************************************)
\* the rows a deletion of a set of songs takes with it
without_songs(pks) ==
    /\ song' = [p \in DOMAIN song \ pks |-> song[p]]
    /\ favorite' = {r \in favorite : r.song \notin pks}
    /\ rating' = {r \in rating : r.song \notin pks}
    /\ comment' = {r \in comment : r.song \notin pks}
    /\ playhistory' = {r \in playhistory : r.song \notin pks}
    /\ playlist' = [p \in DOMAIN playlist |->
                       [playlist[p] EXCEPT !.songs = @ \ pks]]

\* Artist.delete(): Album.artist and Song.artist are CASCADE; a song of
\* another artist that is on a deleted album has its album set to null
delete_artist(pk) ==
    LET albums == {b.pk : b \in {r \in album : r.key.artist = pk}}
        songs  == {p \in DOMAIN song : song[p].artist = pk}
    IN  /\ \E r \in artist : r.pk = pk
        /\ artist' = {r \in artist : r.pk # pk}
        /\ album' = {r \in album : r.pk \notin albums}
        /\ song' = [p \in DOMAIN song \ songs |->
                       IF song[p].album \in albums
                       THEN [song[p] EXCEPT !.album = 0] ELSE song[p]]
        /\ favorite' = {r \in favorite : r.song \notin songs}
        /\ rating' = {r \in rating : r.song \notin songs}
        /\ comment' = {r \in comment : r.song \notin songs}
        /\ playhistory' = {r \in playhistory : r.song \notin songs}
        /\ playlist' = [p \in DOMAIN playlist |->
                           [playlist[p] EXCEPT !.songs = @ \ songs]]
        /\ response' = Response("Artist.delete", "none", pk, "ok")
        /\ UNCHANGED <<users, artist_seq, album_seq, genre, genre_seq, song_seq,
                       favorite_seq, rating_seq, comment_seq, playhistory_seq,
                       playlist_seq, request>>

delete_album_with_songs(pk) ==
    /\ \E r \in album : r.pk = pk
    /\ album' = {r \in album : r.pk # pk}
    /\ without_songs({p \in DOMAIN song : song[p].album = pk})
    /\ response' = Response("Album.delete", "none", pk, "ok")
    /\ UNCHANGED <<users, artist, artist_seq, album_seq, genre, genre_seq, song_seq,
                   favorite_seq, rating_seq, comment_seq, playhistory_seq,
                   playlist_seq, request>>

\* Album.delete(): Song.album is SET_NULL
delete_album(pk) ==
    /\ \E r \in album : r.pk = pk
    /\ album' = {r \in album : r.pk # pk}
    /\ song' = [p \in DOMAIN song |->
                   IF song[p].album = pk
                   THEN [song[p] EXCEPT !.album = 0] ELSE song[p]]
    /\ response' = Response("Album.delete", "none", pk, "ok")
    /\ UNCHANGED <<users, artist, artist_seq, album_seq, genre, genre_seq, song_seq,
                   engagement, playlists, request>>

\* Genre.delete(): Song.genre is SET_NULL
delete_genre(pk) ==
    /\ \E r \in genre : r.pk = pk
    /\ genre' = {r \in genre : r.pk # pk}
    /\ song' = [p \in DOMAIN song |->
                   IF song[p].genre = pk
                   THEN [song[p] EXCEPT !.genre = 0] ELSE song[p]]
    /\ response' = Response("Genre.delete", "none", pk, "ok")
    /\ UNCHANGED <<users, artist, artist_seq, album, album_seq, genre_seq, song_seq,
                   engagement, playlists, request>>

(***************************************************************************)
(* SpecCatalogDelete: at most MaxEngagement uploads, playlists and rows of *)
(* favorites, ratings, comments and plays, and deletions of artists,       *)
(* albums and genres; one request at a time.                               *)
(***************************************************************************)
DeleteForms ==
    {SongForm(TRUE, 0, Name(0, a, 0), 0, Name(0, "Kid A", 0),
              0, Name(0, "Rock", 0), FALSE, TRUE) :
        a \in {"Radiohead", "Muse"}}

\* the favorites, ratings, comments and plays inserted so far
engaged == favorite_seq + rating_seq + comment_seq + playhistory_seq - 4

NextCatalogDelete ==
    \/ \E form \in DeleteForms :
          /\ song_seq <= MaxEngagement
          /\ upload_song_form("ann", "POST", form)
    \/ \E pk \in EngagePks :
          /\ engaged < MaxEngagement
          /\ toggle_favorite("sam", pk)
    \/ \E pk \in EngagePks :
          /\ engaged < MaxEngagement
          /\ add_rating("sam", pk, 3)
    \/ \E pk \in EngagePks :
          /\ engaged < MaxEngagement
          /\ add_comment("sam", pk, Text(0, 2, 0))
    \/ \E pk \in EngagePks :
          /\ engaged < MaxEngagement
          /\ play_song("sam", pk)
    \/ /\ playlist_seq <= MaxEngagement
       /\ create_playlist("sam", "POST", TRUE, TRUE, FALSE)
    \/ \E pk \in EngagePks, p \in EngagePks :
          /\ playlist_exists(p) => song_exists(pk) /\ pk \notin playlist[p].songs
          /\ add_to_playlist("sam", pk, "POST", p)
    \/ \E pk \in EngagePks : delete_artist(pk)
    \/ \E pk \in EngagePks : delete_album(pk)
    \/ \E pk \in EngagePks : delete_genre(pk)

SpecCatalogDelete == Init /\ [][NextCatalogDelete]_vars

\* C20: deleting an Artist removes that artist's albums and songs and, with the
\* songs, their favorites, ratings, comments, plays and playlist memberships,
\* and nothing else; deleting an Album or a Genre deletes no song and only sets
\* the album or genre reference of the songs that had it to null.
C20_CatalogDeletion ==
    [][LET pk == response'.pk
       IN  /\ response'.view = "Artist.delete" =>
                LET gone == {p \in DOMAIN song : song[p].artist = pk}
                    kept == DOMAIN song \ gone
                IN  /\ \A r \in artist' : r.pk # pk
                    /\ artist' = {r \in artist : r.pk # pk}
                    /\ album' = {r \in album : r.key.artist # pk}
                    /\ genre' = genre
                    /\ DOMAIN song' = kept
                    /\ \A p \in kept :
                          /\ song'[p].artist = song[p].artist
                          /\ song'[p].genre = song[p].genre
                          /\ song'[p].album \in {song[p].album, 0}
                          /\ song'[p].album = 0 =>
                                \/ song[p].album = 0
                                \/ \E r \in album :
                                      r.pk = song[p].album /\ r.key.artist = pk
                    /\ favorite' = {r \in favorite : r.song \in kept}
                    /\ rating' = {r \in rating : r.song \in kept}
                    /\ comment' = {r \in comment : r.song \in kept}
                    /\ playhistory' = {r \in playhistory : r.song \in kept}
                    /\ DOMAIN playlist' = DOMAIN playlist
                    /\ \A p \in DOMAIN playlist :
                          playlist'[p] = [playlist[p] EXCEPT !.songs = @ \cap kept]
           /\ response'.view = "Album.delete" =>
                /\ album' = {r \in album : r.pk # pk}
                /\ DOMAIN song' = DOMAIN song
                /\ \A p \in DOMAIN song :
                      song'[p] = [song[p] EXCEPT
                                     !.album = IF @ = pk THEN 0 ELSE @]
                /\ UNCHANGED <<artist, genre, engagement, playlists>>
           /\ response'.view = "Genre.delete" =>
                /\ genre' = {r \in genre : r.pk # pk}
                /\ DOMAIN song' = DOMAIN song
                /\ \A p \in DOMAIN song :
                      song'[p] = [song[p] EXCEPT
                                     !.genre = IF @ = pk THEN 0 ELSE @]
                /\ UNCHANGED <<artist, album, engagement, playlists>>]_vars

C20_Witness ==
    /\ response = Response("Artist.delete", "none", 1, "ok")
    /\ song_seq = 2 /\ album_seq = 2 /\ favorite_seq = 2
    /\ DOMAIN song = {}
    /\ artist = {} /\ album = {} /\ favorite = {}
    /\ genre # {}

(***************************************************************************)
(* Deleting a user: Model.delete() on the accounts_user row follows the    *)
(* on_delete of Song.uploaded_by, Playlist.user and of the user reference  *)
(* of Favorite, Rating, Comment and PlayHistory, all CASCADE; the deleted  *)
(* songs take the rows that reference them along.                          *)
(***************************************************************************)
delete_user_keeps_rows_on_songs(u) ==
    LET songs == {p \in DOMAIN song : song[p].uploaded_by = u}
    IN  /\ u \in users
        /\ users' = users \ {u}
        /\ song' = [p \in DOMAIN song \ songs |-> song[p]]
        /\ favorite' = {r \in favorite : r.user # u}
        /\ rating' = {r \in rating : r.user # u}
        /\ comment' = {r \in comment : r.user # u}
        /\ playhistory' = {r \in playhistory : r.user # u}
        /\ playlist' = [p \in {q \in DOMAIN playlist : playlist[q].user # u} |->
                           playlist[p]]
        /\ response' = Response("User.delete", u, 0, "ok")
        /\ UNCHANGED <<library, song_seq, favorite_seq, rating_seq, comment_seq,
                       playhistory_seq, playlist_seq, request>>

\* User.delete()
delete_user(u) ==
    LET songs == {p \in DOMAIN song : song[p].uploaded_by = u}
    IN  /\ u \in users
        /\ users' = users \ {u}
        /\ song' = [p \in DOMAIN song \ songs |-> song[p]]
        /\ favorite' = {r \in favorite : r.user # u /\ r.song \notin songs}
        /\ rating' = {r \in rating : r.user # u /\ r.song \notin songs}
        /\ comment' = {r \in comment : r.user # u /\ r.song \notin songs}
        /\ playhistory' = {r \in playhistory : r.user # u /\ r.song \notin songs}
        /\ playlist' = [p \in {q \in DOMAIN playlist : playlist[q].user # u} |->
                           [playlist[p] EXCEPT !.songs = @ \ songs]]
        /\ response' = Response("User.delete", u, 0, "ok")
        /\ UNCHANGED <<library, song_seq, favorite_seq, rating_seq, comment_seq,
                       playhistory_seq, playlist_seq, request>>

(***************************************************************************)
(* SpecUserDelete: the users that still have a row upload one song each,   *)
(* insert at most MaxRatings rows of favorites (both users), ratings and   *)
(* plays (ann) and comments (sam), create at most MaxPrivatePlaylists      *)
(* playlists and fill them; users are deleted; one request at a time.      *)
(***************************************************************************)
NextUserDelete ==
    \/ \E u \in users :
          /\ \A p \in DOMAIN song : song[p].uploaded_by # u
          /\ upload_song(u, "POST", TRUE, TRUE)
    \/ \E u \in users, pk \in DOMAIN song :
          /\ engaged < MaxRatings
          /\ toggle_favorite(u, pk)
    \/ \E u \in users \cap {"ann"}, pk \in DOMAIN song :
          /\ engaged < MaxRatings
          /\ add_rating(u, pk, 3)
    \/ \E u \in users \cap {"sam"}, pk \in DOMAIN song :
          /\ engaged < MaxRatings
          /\ add_comment(u, pk, Text(0, 2, 0))
    \/ \E u \in users \cap {"ann"}, pk \in DOMAIN song :
          /\ engaged < MaxRatings
          /\ play_song(u, pk)
    \/ \E u \in users :
          /\ playlist_seq <= MaxPrivatePlaylists
          /\ create_playlist(u, "POST", TRUE, TRUE, FALSE)
    \/ \E u \in users, pk \in DOMAIN song, p \in DOMAIN playlist :
          /\ playlist_owned_by(u, p) /\ pk \notin playlist[p].songs
          /\ add_to_playlist(u, pk, "POST", p)
    \/ \E u \in users : delete_user(u)

SpecUserDelete == Init /\ [][NextUserDelete]_vars

\* C21: deleting a user removes the user's songs and playlists, every favorite,
\* rating, comment and play that references the user or one of those songs, and
\* the membership of those songs in the remaining playlists; every other row,
\* and the artists, albums and genres, are as they were.
C21_UserDeletionCascade ==
    [][response'.view = "User.delete" =>
          LET u == response'.user
              gone == {p \in DOMAIN song : song[p].uploaded_by = u}
              kept == DOMAIN song \ gone
              mine(r) == r.user = u \/ r.song \in gone
          IN  /\ u \notin users'
              /\ users' \cup {u} = users \cup {u}
              /\ DOMAIN song' = kept
              /\ \A p \in kept : song'[p] = song[p]
              /\ DOMAIN playlist' = {p \in DOMAIN playlist : playlist[p].user # u}
              /\ \A p \in DOMAIN playlist' :
                    playlist'[p] = [playlist[p] EXCEPT !.songs = @ \cap kept]
              /\ \A r \in favorite : r \in favorite' <=> ~mine(r)
              /\ \A r \in rating : r \in rating' <=> ~mine(r)
              /\ \A r \in comment : r \in comment' <=> ~mine(r)
              /\ \A r \in playhistory : r \in playhistory' <=> ~mine(r)
              /\ favorite' \subseteq favorite
              /\ rating' \subseteq rating
              /\ comment' \subseteq comment
              /\ playhistory' \subseteq playhistory
              /\ UNCHANGED library]_vars

\* a deletion that took another user's favorite on a deleted song and left
\* that user's favorite on a song of their own
C21_Witness ==
    /\ response = Response("User.delete", "ann", 0, "ok")
    /\ users = {"sam"}
    /\ favorite_seq = 3
    /\ Cardinality(favorite) = 1
    /\ \E r \in favorite : r.user = "sam" /\ song_exists(r.song)
    /\ song_seq = 3
    /\ Cardinality(DOMAIN song) = 1

(***************************************************************************)
(* SpecArtist: uploads and edits whose form names its artist in every way  *)
(* (nothing, blanks, a choice that exists or not, a new name), and         *)
(* deletions of artists; at most MaxSongs songs and MaxSongs artist rows   *)
(* ever; one request at a time.                                            *)
(***************************************************************************)
ArtistForms ==
    {SongForm(v, a[1], a[2], 0, NoName, 0, NoName, FALSE, TRUE) :
        v \in BOOLEAN,
        a \in {<<0, NoName>>, <<0, Name(1, "", 1)>>, <<1, NoName>>,
               <<2, NoName>>, <<0, Name(0, "Muse", 0)>>,
               <<0, Name(1, "Radiohead", 0)>>}}

\* the form neither selects an existing artist nor supplies a name
names_no_artist(form) ==
    chosen(artist, form.artist) = 0 /\ strip_name(form.artist_name) = NoName

NextArtist ==
    \/ \E u \in Users, form \in ArtistForms :
          /\ song_seq <= MaxSongs
          /\ artist_seq <= MaxSongs
          /\ upload_song_form(u, "POST", form)
    \/ \E u \in Users, pk \in SongPks, form \in ArtistForms :
          /\ artist_seq <= MaxSongs
          /\ edit_song_form(u, pk, "POST", form)
    \/ \E pk \in SongPks : delete_artist(pk)

SpecArtist == Init /\ [][NextArtist]_vars

\* C22: every stored song refers to exactly one artist row, never to none;
\* an upload or edit whose form neither selects an existing artist nor gives
\* a name is answered as invalid and stores or changes no song.
C22_SongHasArtist ==
    /\ [](\A p \in DOMAIN song :
             /\ song[p].artist # 0
             /\ Cardinality({r \in artist : r.pk = song[p].artist}) = 1)
    /\ [][LET u == response'.user
               pk == response'.pk
           IN  \A form \in ArtistForms : names_no_artist(form) =>
                  /\ (response'.view = "upload_song"
                      /\ upload_song_form(u, "POST", form)) =>
                         /\ response'.status = "invalid"
                         /\ UNCHANGED store
                  /\ (response'.view = "edit_song"
                      /\ song_exists(pk) /\ ~song_mutation_refused(u, pk)
                      /\ edit_song_form(u, pk, "POST", form)) =>
                         /\ response'.status = "invalid"
                         /\ UNCHANGED store]_vars

\* an upload without an artist was refused on an empty store, nothing stored
C22_Witness ==
    /\ response.view = "upload_song" /\ response.status = "invalid"
    /\ artist = {} /\ artist_seq = 1
    /\ DOMAIN song = {} /\ song_seq = 1

(***************************************************************************)
(* The figures of a user: the properties of User, profile and user_stats.  *)
(***************************************************************************)
total_uploads_public_only(u) ==
    Cardinality({p \in DOMAIN song : song[p].uploaded_by = u /\ song[p].is_public})

\* User.total_uploads: self.uploaded_songs.count()
total_uploads(u) ==
    Cardinality({p \in DOMAIN song : song[p].uploaded_by = u})

\* User.total_playlists: self.playlists.count()
total_playlists(u) ==
    Cardinality({p \in DOMAIN playlist : playlist[p].user = u})

\* User.total_favorites: self.favorites.count()
total_favorites(u) == Cardinality({r \in favorite : r.user = u})

\* user_stats: PlayHistory.objects.filter(user=request.user).count()
total_plays(u) == Cardinality({h \in playhistory : h.user = u})

\* every order in which a set of songs can stand
arrangements(pks) ==
    {s \in [1..Cardinality(pks) -> pks] :
        \A i, j \in DOMAIN s : i # j => s[i] # s[j]}

\* the slice [:n]
first(s, n) == SubSeq(s, 1, IF Len(s) < n THEN Len(s) ELSE n)

\* user_stats: the lists that values('song').annotate(play_count=Count('song'))
\* .order_by('-play_count')[:10] can return; groups of equal count stand in
\* the order the database chooses
most_played_orders(u) ==
    {first(s, MostPlayedLimit) :
        s \in {a \in arrangements(play_history(u)) :
                  \A i, j \in DOMAIN a :
                      i < j => plays_of(u, a[i]) >= plays_of(u, a[j])}}

\* user_stats
user_stats(u) ==
    \E most_played \in most_played_orders(u) :
        /\ response' =
              [view |-> "user_stats", user |-> u, pk |-> 0, status |-> "ok",
               total_uploads |-> total_uploads(u),
               total_playlists |-> total_playlists(u),
               total_favorites |-> total_favorites(u),
               total_plays |-> total_plays(u),
               most_played_songs |->
                   [i \in DOMAIN most_played |->
                       [song |-> most_played[i],
                        plays |-> plays_of(u, most_played[i])]]]
        /\ UNCHANGED <<store, request>>

\* profile, GET: the statistics of its context
profile(u) ==
    /\ response' =
          [view |-> "profile", user |-> u, pk |-> 0, status |-> "ok",
           uploaded_songs |-> total_uploads(u),
           playlists |-> total_playlists(u),
           favorites |-> total_favorites(u)]
    /\ UNCHANGED <<store, request>>

(***************************************************************************)
(* SpecStats: at most MaxSongs uploads, each by a user who has no song at  *)
(* the time, MaxEngagement playlists and MaxEngagement favorites ever,     *)
(* deletions of songs, playlists and artists, and the two pages that show  *)
(* the figures; one request at a time.                                     *)
(***************************************************************************)
NextStats ==
    \/ \E u \in Users, is_public \in BOOLEAN :
          /\ song_seq <= MaxSongs /\ total_uploads(u) = 0
          /\ upload_song(u, "POST", TRUE, is_public)
    \/ \E u \in Users, pk \in DOMAIN song : delete_song(u, pk)
    \/ \E u \in Users :
          /\ playlist_seq <= MaxEngagement
          /\ create_playlist(u, "POST", TRUE, TRUE, FALSE)
    \/ \E u \in Users, pk \in DOMAIN playlist : delete_playlist(u, pk)
    \/ \E u \in Users, pk \in DOMAIN song :
          /\ favorite_seq <= MaxEngagement \/ favorite_rows(u, pk) # {}
          /\ toggle_favorite(u, pk)
    \/ \E pk \in SongPks : delete_artist(pk)
    \/ \E u \in Users : user_stats(u)
    \/ \E u \in Users : profile(u)

SpecStats == Init /\ [][NextStats]_vars

\* C23: the figures that user_stats and profile show are the numbers of the
\* user's songs, playlists and favorites in the store they were read from, and
\* each figure moves with the rows only: up by one with an upload, a new
\* playlist or a favorite of the user, down by the number of the user's rows
\* that a deletion or its cascade removes, and not at all otherwise.
C23_DerivedCounters ==
    /\ [](response.view = "user_stats" =>
             LET u == response.user
             IN  /\ response.total_uploads
                        = Cardinality({p \in DOMAIN song : song[p].uploaded_by = u})
                 /\ response.total_playlists
                        = Cardinality({p \in DOMAIN playlist : playlist[p].user = u})
                 /\ response.total_favorites
                        = Cardinality({r \in favorite : r.user = u}))
    /\ [](response.view = "profile" =>
             LET u == response.user
             IN  /\ response.uploaded_songs
                        = Cardinality({p \in DOMAIN song : song[p].uploaded_by = u})
                 /\ response.playlists
                        = Cardinality({p \in DOMAIN playlist : playlist[p].user = u})
                 /\ response.favorites
                        = Cardinality({r \in favorite : r.user = u}))
    /\ [][\A u \in Users :
             LET view == response'.view
                 ok == response'.status = "ok"
                 pk == response'.pk
                 by_u == response'.user = u
                 gone == DOMAIN song \ DOMAIN song'
             IN  /\ total_uploads(u)' - total_uploads(u) =
                       IF view = "upload_song" /\ ok /\ by_u THEN 1
                       ELSE IF view \in {"delete_song", "Artist.delete"} /\ ok
                       THEN 0 - Cardinality({p \in gone : song[p].uploaded_by = u})
                       ELSE 0
                 /\ total_playlists(u)' - total_playlists(u) =
                       IF view = "create_playlist" /\ ok /\ by_u THEN 1
                       ELSE IF view = "delete_playlist" /\ ok /\ by_u THEN 0 - 1
                       ELSE 0
                 /\ total_favorites(u)' - total_favorites(u) =
                       IF view = "toggle_favorite" /\ ok /\ by_u
                       THEN IF response'.is_favorite THEN 1 ELSE 0 - 1
                       ELSE IF view \in {"delete_song", "Artist.delete"} /\ ok
                       THEN 0 - Cardinality({r \in favorite :
                                               r.user = u /\ r.song \in gone})
                       ELSE 0]_vars

\* user_stats after the cascade of a song deletion took the user's favorite
C23_Witness ==
    /\ response.view = "user_stats" /\ response.user = "sam"
    /\ response.total_favorites = 0 /\ favorite_seq = 2 /\ favorite = {}
    /\ response.total_uploads = 1 /\ song_seq = 3
    /\ response.total_playlists = 1

(***************************************************************************)
(* SpecMostPlayed: at most MaxSongs uploads and MaxPlays plays, and        *)
(* user_stats; one request at a time.                                      *)
(***************************************************************************)
NextMostPlayed ==
    \/ /\ song_seq <= MaxSongs
       /\ upload_song("ann", "POST", TRUE, TRUE)
    \/ \E u \in Users, pk \in DOMAIN song :
          /\ playhistory_seq <= MaxPlays
          /\ play_song(u, pk)
    \/ \E u \in Users : user_stats(u)

SpecMostPlayed == Init /\ [][NextMostPlayed]_vars

\* C24: the most-played list of user_stats holds the songs the user played,
\* each once with its number of plays, at most 10 of them and none left out
\* that was played more than a listed one, in descending order of plays, and
\* of two songs played equally often the one played last comes first.
C24_MostPlayedOrder ==
    response.view = "user_stats" =>
        LET u == response.user
            list == response.most_played_songs
            last_play(pk) ==
                CHOOSE n \in 1..playhistory_seq :
                    /\ \E h \in playhistory : h.pk = n /\ h.user = u /\ h.song = pk
                    /\ \A h \in playhistory :
                          h.user = u /\ h.song = pk => h.pk <= n
        IN  /\ Len(list) <= MostPlayedLimit
            /\ Len(list) = MostPlayedLimit \/ Len(list) = Cardinality(play_history(u))
            /\ \A i \in DOMAIN list :
                  /\ list[i].song \in play_history(u)
                  /\ list[i].plays = plays_of(u, list[i].song)
                  /\ \A pk \in play_history(u) :
                        (\A j \in DOMAIN list : list[j].song # pk) =>
                            plays_of(u, pk) <= list[i].plays
            /\ \A i, j \in DOMAIN list :
                  i < j =>
                     \/ list[i].plays > list[j].plays
                     \/ /\ list[i].plays = list[j].plays
                        /\ last_play(list[i].song) > last_play(list[j].song)

(***************************************************************************)
(* Ordering and pagination of the listings.                                *)
(***************************************************************************)
\* the titles and artist names used in the listings, in collation order
Alphabet ==
    <<"A01", "A02", "A03", "A04", "A05", "A06",
      "A07", "A08", "A09", "A10", "A11", "A12",
      "A13", "A14", "A15", "A16", "A17", "A18",
      "A19", "A20", "A21", "A22", "A23", "A24",
      "A25", "A26", "A27", "A28", "A29", "A30",
      "Airbag", "Creep", "Lucky", "Muse", "Radiohead">>

collate(word) == CHOOSE i \in DOMAIN Alphabet : Alphabet[i] = word

\* QuerySet.order_by: every list of the rows of DOMAIN rank in which no row
\* stands before a row of smaller rank; rows of equal rank stand in the order
\* the database chooses
RECURSIVE order_by(_)
order_by(rank) ==
    IF DOMAIN rank = {} THEN {<<>>}
    ELSE UNION {{<<p>> \o t :
                    t \in order_by([q \in DOMAIN rank \ {p} |-> rank[q]])} :
                  p \in {q \in DOMAIN rank :
                            \A r \in DOMAIN rank : rank[q] <= rank[r]}}

\* a request parameter: absent, or its text
NoParam == [present |-> FALSE, text |-> ""]

Param(text) == [present |-> TRUE, text |-> text]

\* song_list: the sort values the view passes to order_by
valid_sorts == {"-upload_date", "title", "-play_count", "artist__name"}

\* SongSearchForm.sort_by: the sort values the form offers
sort_by_choices ==
    {"-upload_date", "upload_date", "title", "-title", "-play_count",
     "artist__name"}

\* the rank of a song under a sort value; upload_date is auto_now_add, so
\* songs were uploaded in the order of their keys
song_rank(sort_by, pk) ==
    CASE sort_by = "-upload_date" -> 0 - pk
      [] sort_by = "upload_date" -> pk
      [] sort_by = "title" -> collate(song[pk].title)
      [] sort_by = "-title" -> 0 - collate(song[pk].title)
      [] sort_by = "-play_count" -> 0 - song[pk].play_count
      [] sort_by = "artist__name" ->
            collate((CHOOSE r \in artist : r.pk = song[pk].artist).key.name.word)

\* song_list: request.GET.get('sort', '-upload_date'), order_by(sort_by) when
\* it is one of valid_sorts, else Meta.ordering = ['-upload_date']
song_list_ordered(u, sort) ==
    LET sort_by == IF sort.present THEN sort.text ELSE "-upload_date"
        ordering == IF sort_by \in valid_sorts THEN sort_by ELSE "-upload_date"
    IN  order_by([pk \in song_list(u) |-> song_rank(ordering, pk)])

\* int(text) of the page texts used here: the number, or a ValueError
Numerals ==
    {<<"1", 1>>, <<"2", 2>>, <<"3", 3>>, <<" 2 ", 2>>, <<"0", 0>>,
     <<"-1", 0 - 1>>, <<"9999", 9999>>}

int(text) ==
    IF \E n \in Numerals : n[1] = text
    THEN [raised |-> "none", value |-> (CHOOSE n \in Numerals : n[1] = text)[2]]
    ELSE [raised |-> "ValueError", value |-> 0]

\* Paginator.num_pages (orphans = 0, allow_empty_first_page = True)
num_pages(count, per_page) ==
    IF count = 0 THEN 1 ELSE (count + per_page - 1) \div per_page

\* Paginator.validate_number: what paginator.page(page) raises
validate_number(page, count, per_page) ==
    IF ~page.present \/ int(page.text).raised # "none" THEN "PageNotAnInteger"
    ELSE IF int(page.text).value < 1 THEN "EmptyPage"
    ELSE IF int(page.text).value > num_pages(count, per_page) THEN "EmptyPage"
    ELSE "none"

\* Paginator.page(number) for a valid number
Page(object_list, per_page, number) ==
    LET bottom == (number - 1) * per_page
        top == IF bottom + per_page >= Len(object_list)
               THEN Len(object_list) ELSE bottom + per_page
    IN  [number |-> number,
         num_pages |-> num_pages(Len(object_list), per_page),
         object_list |-> SubSeq(object_list, bottom + 1, top)]

page_raises_through(object_list, per_page, page) ==
    LET raised == validate_number(page, Len(object_list), per_page)
    IN  IF raised = "none"
        THEN Page(object_list, per_page, int(page.text).value)
        ELSE [number |-> 0, num_pages |-> 0, object_list |-> <<>>]

\* the try / except PageNotAnInteger / except EmptyPage of the listing views
paginate(object_list, per_page, page) ==
    LET raised == validate_number(page, Len(object_list), per_page)
    IN  IF raised = "PageNotAnInteger" THEN Page(object_list, per_page, 1)
        ELSE IF raised = "EmptyPage"
        THEN Page(object_list, per_page,
                  num_pages(Len(object_list), per_page))
        ELSE Page(object_list, per_page, int(page.text).value)

\* Paginator(songs, 20)
SongsPerPage == 20

\* what a listing view answers: the page handed to the template
Listing(view, u, sort, page, listed) ==
    [view |-> view, user |-> u, pk |-> 0, status |-> "ok",
     sort |-> sort, page |-> page, listed |-> listed]

\* song_list, without filters
song_list_view(u, sort, page) ==
    \E songs \in song_list_ordered(u, sort) :
        /\ response' = Listing("song_list", u, sort, page,
                               paginate(songs, SongsPerPage, page))
        /\ UNCHANGED <<store, request>>

(***************************************************************************)
(* SpecSort: at most MaxSongs uploads with two titles and two artists, at  *)
(* most MaxEngagement plays, and song_list under every sort value; one     *)
(* request at a time.                                                      *)
(***************************************************************************)
SortForms ==
    {[SongForm(TRUE, 0, Name(0, a, 0), 0, NoName, 0, NoName, FALSE, TRUE)
         EXCEPT !.title = t] :
        a \in {"Muse", "Radiohead"}, t \in {"Airbag", "Lucky"}}

SortParams ==
    {NoParam, Param(""), Param("popular")} \cup {Param(s) : s \in sort_by_choices}

NextSort ==
    \/ \E form \in SortForms :
          /\ song_seq <= MaxSongs
          /\ upload_song_form("ann", "POST", form)
    \/ \E pk \in DOMAIN song :
          /\ playhistory_seq <= MaxEngagement
          /\ play_song("sam", pk)
    \/ \E sort \in SortParams : song_list_view("sam", sort, NoParam)

SpecSort == Init /\ [][NextSort]_vars

\* C25: song_list answers in the order of the sort value when it is one of
\* upload_date, -upload_date, title, -title, -play_count and artist__name, and
\* newest first for every other value or none; it always answers.
C25_SortHonoured ==
    response.view = "song_list" =>
        LET songs == response.listed.object_list
            sort_by == IF response.sort.present /\ response.sort.text \in sort_by_choices
                       THEN response.sort.text ELSE "-upload_date"
        IN  /\ response.status = "ok"
            /\ {songs[i] : i \in DOMAIN songs} = song_list(response.user)
            /\ Len(songs) = Cardinality(song_list(response.user))
            /\ \A i, j \in DOMAIN songs :
                  i < j => song_rank(sort_by, songs[i]) <= song_rank(sort_by, songs[j])

\* Paginator(artists, 24)
ArtistsPerPage == 24

\* artist_list: every artist, order_by('name')
artist_list(u, page) ==
    \E artists \in order_by([pk \in {r.pk : r \in artist} |->
                   collate((CHOOSE r \in artist : r.pk = pk).key.name.word)]) :
        /\ response' = Listing("artist_list", u, NoParam, page,
                               paginate(artists, ArtistsPerPage, page))
        /\ UNCHANGED <<store, request>>

\* Paginator(history, 50)
HistoryPerPage == 50

\* play_history: the caller's rows, order_by('-played_at'); played_at is
\* auto_now_add, so rows were inserted in the order of their keys
play_history_view(u, page) ==
    \E history \in order_by([n \in {h.pk : h \in {r \in playhistory : r.user = u}}
                                |-> 0 - n]) :
        /\ response' = Listing("play_history", u, NoParam, page,
                               paginate(history, HistoryPerPage, page))
        /\ UNCHANGED <<store, request>>

(***************************************************************************)
(* SpecPages: ann uploads at most MaxListedSongs songs, each of a new      *)
(* artist, or plays her first song at most MaxListedPlays times, and the   *)
(* three paginated listings under every page parameter; one request at a   *)
(* time.                                                                   *)
(***************************************************************************)
MaxListedSongs == 25

MaxListedPlays == 51

PageParams ==
    {NoParam} \cup
    {Param(text) : text \in {"abc", "", "1.5", "0", "-1", "1", "2", " 2 ", "9999"}}

NextPages ==
    \/ /\ song_seq <= MaxListedSongs
       /\ song_seq = 1 \/ playhistory_seq = 1
       /\ upload_song_form("ann", "POST",
              SongForm(TRUE, 0, Name(0, Alphabet[song_seq], 0), 0, NoName,
                       0, NoName, FALSE, TRUE))
    \/ /\ playhistory_seq <= MaxListedPlays
       /\ song_seq = 2
       /\ play_song("ann", 1)
    \/ \E page \in PageParams : song_list_view("ann", NoParam, page)
    \/ \E page \in PageParams : artist_list("ann", page)
    \/ \E page \in PageParams : play_history_view("ann", page)

SpecPages == Init /\ [][NextPages]_vars

\* C26: song_list (20 a page), artist_list (24) and play_history (50) answer
\* every page parameter: with no parameter or one that is not a whole number
\* page 1, with a number below 1 or beyond the last page the last page, else
\* the page asked for; the page holds the rows of its place in the listing,
\* and a listing without rows has one page, which is empty.
C26_PaginationTotal ==
    response.view \in {"song_list", "artist_list", "play_history"} =>
        LET view == response.view
            page == response.page
            listed == response.listed
            per_page == CASE view = "song_list" -> 20
                          [] view = "artist_list" -> 24
                          [] view = "play_history" -> 50
            rows == CASE view = "song_list" -> song_list(response.user)
                      [] view = "artist_list" -> {r.pk : r \in artist}
                      [] view = "play_history" ->
                            {h.pk : h \in {r \in playhistory :
                                              r.user = response.user}}
            \* how many rows stand before a row in the listing
            place(pk) == IF view = "artist_list"
                         THEN Cardinality({q \in rows : q < pk})
                         ELSE Cardinality({q \in rows : q > pk})
            count == Cardinality(rows)
            last == IF count = 0 THEN 1
                    ELSE CHOOSE k \in 1..count :
                            (k - 1) * per_page < count /\ count <= k * per_page
            asked == IF ~page.present \/ page.text \in {"abc", "", "1.5"} THEN 1
                     ELSE IF page.text \in {"0", "-1", "9999"} THEN last
                     ELSE IF page.text = "1" THEN 1
                     ELSE IF last >= 2 THEN 2 ELSE last
            before == (asked - 1) * per_page
            length == IF count - before < per_page
                      THEN count - before ELSE per_page
        IN  /\ response.status = "ok"
            /\ listed.num_pages = last
            /\ listed.number = asked
            /\ Len(listed.object_list) = length
            /\ \A i \in 1..length :
                  /\ listed.object_list[i] \in rows
                  /\ place(listed.object_list[i]) = before + i - 1
            /\ count = 0 => listed.number = 1 /\ listed.object_list = <<>>

\* the last of two pages of songs was answered to a page far beyond it
C26_Witness ==
    /\ response.view = "song_list" /\ response.page = Param("9999")
    /\ response.listed.num_pages = 2 /\ response.listed.number = 2
    /\ Len(response.listed.object_list) = 5
    /\ response.listed.object_list[1] = 5

(***************************************************************************)
(* SpecIntegrity: the users that have a row upload at most MaxEngagement   *)
(* songs, create at most MaxEngagement playlists (sam) and insert at most  *)
(* MaxEngagement favorites (both users), ratings and plays (ann) and       *)
(* comments (sam); songs are edited and deleted, playlists edited, filled, *)
(* emptied and deleted by those who may, users deleted; one request at a   *)
(* time.                                                                   *)
(***************************************************************************)
NextIntegrity ==
    \/ \E u \in users :
          /\ song_seq <= MaxEngagement
          /\ upload_song(u, "POST", TRUE, TRUE)
    \/ \E u \in users, pk \in DOMAIN song :
          /\ ~song_mutation_refused(u, pk)
          /\ edit_song(u, pk, "POST", TRUE, TRUE)
    \/ \E u \in users, pk \in DOMAIN song :
          /\ ~song_mutation_refused(u, pk)
          /\ delete_song(u, pk)
    \/ \E u \in users \cap {"ann"}, pk \in DOMAIN song :
          /\ engaged < MaxEngagement
          /\ play_song(u, pk)
    \/ \E u \in users, pk \in DOMAIN song :
          /\ engaged < MaxEngagement \/ favorite_rows(u, pk) # {}
          /\ toggle_favorite(u, pk)
    \/ \E u \in users \cap {"ann"}, pk \in DOMAIN song :
          /\ engaged < MaxEngagement \/ rating_rows(u, pk) # {}
          /\ add_rating(u, pk, 3)
    \/ \E u \in users \cap {"sam"}, pk \in DOMAIN song :
          /\ engaged < MaxEngagement
          /\ add_comment(u, pk, Text(0, 2, 0))
    \/ \E u \in users \cap {"sam"} :
          /\ playlist_seq <= MaxEngagement
          /\ create_playlist(u, "POST", TRUE, TRUE, FALSE)
    \/ \E u \in users, p \in DOMAIN playlist :
          /\ playlist_owned_by(u, p)
          /\ edit_playlist(u, p, "POST", TRUE, TRUE, FALSE)
    \/ \E u \in users, p \in DOMAIN playlist :
          /\ playlist_owned_by(u, p)
          /\ delete_playlist(u, p)
    \/ \E u \in users, pk \in DOMAIN song, p \in DOMAIN playlist :
          /\ playlist_owned_by(u, p) /\ pk \notin playlist[p].songs
          /\ add_to_playlist(u, pk, "POST", p)
    \/ \E u \in users, pk \in DOMAIN song, p \in DOMAIN playlist :
          /\ playlist_owned_by(u, p) /\ pk \in playlist[p].songs
          /\ remove_from_playlist(u, p, pk)
    \/ \E u \in users : delete_user(u)

SpecIntegrity == Init /\ [][NextIntegrity]_vars

\* C27: in every reachable state each favorite, rating, comment and play
\* refers to a user and a song that exist, each playlist holds only songs
\* that exist, and each song and playlist has an owner that exists; a
\* delete_song that succeeds leaves no favorite, rating, comment or play of
\* the song and the song in no playlist, and touches no other row.
C27_ReferentialIntegrity ==
    /\ [](/\ \A r \in favorite \cup rating \cup comment \cup playhistory :
                r.user \in users /\ r.song \in DOMAIN song
          /\ \A p \in DOMAIN playlist :
                playlist[p].user \in users /\ playlist[p].songs \subseteq DOMAIN song
          /\ \A p \in DOMAIN song : song[p].uploaded_by \in users)
    /\ [][response'.view = "delete_song" /\ response'.status = "ok" =>
             LET pk == response'.pk
             IN  /\ DOMAIN song' = DOMAIN song \ {pk}
                 /\ \A p \in DOMAIN song' : song'[p] = song[p]
                 /\ favorite' = {r \in favorite : r.song # pk}
                 /\ rating' = {r \in rating : r.song # pk}
                 /\ comment' = {r \in comment : r.song # pk}
                 /\ playhistory' = {r \in playhistory : r.song # pk}
                 /\ DOMAIN playlist' = DOMAIN playlist
                 /\ \A p \in DOMAIN playlist :
                       /\ pk \notin playlist'[p].songs
                       /\ playlist'[p] = [playlist[p] EXCEPT !.songs = @ \ {pk}]]_vars

\* a song was deleted that was in a playlist and had a favorite
C27_Witness ==
    /\ response.view = "delete_song" /\ response.status = "ok"
    /\ favorite_seq = 2 /\ favorite = {}
    /\ \E p \in DOMAIN playlist : playlist[p].songs = {}
    /\ DOMAIN song = {} /\ song_seq = 2
    /\ users = Users

(***************************************************************************)
(* SpecOwner: at most MaxEngagement uploads and as many playlists, edits   *)
(* and deletions of songs and playlists by every user and changes of       *)
(* playlist membership by the owner; one request at a time.                *)
(***************************************************************************)
NextOwner ==
    \/ \E u \in Users :
          /\ song_seq <= MaxEngagement
          /\ upload_song(u, "POST", TRUE, TRUE)
    \/ \E u \in Users, pk \in DOMAIN song, is_public \in BOOLEAN :
          edit_song(u, pk, "POST", TRUE, is_public)
    \/ \E u \in Users, pk \in DOMAIN song : delete_song(u, pk)
    \/ \E u \in Users :
          /\ playlist_seq <= MaxEngagement
          /\ create_playlist(u, "POST", TRUE, TRUE, FALSE)
    \/ \E u \in Users, p \in DOMAIN playlist, is_collaborative \in BOOLEAN :
          edit_playlist(u, p, "POST", TRUE, TRUE, is_collaborative)
    \/ \E u \in Users, p \in DOMAIN playlist : delete_playlist(u, p)
    \/ \E u \in Users, pk \in DOMAIN song, p \in DOMAIN playlist :
          /\ playlist_owned_by(u, p) /\ pk \notin playlist[p].songs
          /\ add_to_playlist(u, pk, "POST", p)
    \/ \E u \in Users, pk \in DOMAIN song, p \in DOMAIN playlist :
          /\ playlist_owned_by(u, p) /\ pk \in playlist[p].songs
          /\ remove_from_playlist(u, p, pk)

SpecOwner == Init /\ [][NextOwner]_vars

\* C28: a song or playlist that a step creates comes from upload_song or
\* create_playlist and is owned by the user who asked; no step changes the
\* owner of a song or playlist that exists before and after it, whoever asks.
C28_OwnerFixed ==
    [][/\ \A p \in DOMAIN song' :
             IF p \in DOMAIN song
             THEN song'[p].uploaded_by = song[p].uploaded_by
             ELSE /\ response'.view = "upload_song"
                  /\ song'[p].uploaded_by = response'.user
       /\ \A p \in DOMAIN playlist' :
             IF p \in DOMAIN playlist
             THEN playlist'[p].user = playlist[p].user
             ELSE /\ response'.view = "create_playlist"
                  /\ playlist'[p].user = response'.user]_vars

\* the administrator edited a song of another user, which stays hers
C28_Witness ==
    /\ response = Response("edit_song", "sam", 1, "ok")
    /\ song_exists(1)
    /\ song[1].uploaded_by = "ann" /\ ~song[1].is_public
    /\ \E p \in DOMAIN playlist : playlist[p].user = "ann" /\ playlist[p].is_collaborative

(***************************************************************************)
(* add_to_playlist (POST) query by query: requests of several workers      *)
(* interleave.                                                             *)
(***************************************************************************)
\* add_to_playlist: the two get_object_or_404 and the exists() query
ap_begin(w, u, song_pk, playlist_id) ==
    /\ idle(w)
    /\ IF ~song_exists(song_pk) \/ ~playlist_owned_by(u, playlist_id)
       THEN /\ response' = Membership("add_to_playlist", u, song_pk,
                                      playlist_id, "not_found")
            /\ UNCHANGED request
       ELSE IF song_pk \in playlist[playlist_id].songs
       THEN /\ response' = Membership("add_to_playlist", u, song_pk,
                                      playlist_id, "already")
            /\ UNCHANGED request
       ELSE /\ request' = [request EXCEPT ![w] =
                              [view |-> "add_to_playlist", pc |-> "add",
                               user |-> u, song |-> song_pk,
                               playlist |-> playlist_id]]
            /\ UNCHANGED response
    /\ UNCHANGED store

\* add_to_playlist: playlist.songs.add(song); the table of memberships is
\* unique in (playlist, song), and a membership of a row that is gone is
\* refused by its foreign key
ap_add(w) ==
    /\ at(w, "add_to_playlist", "add")
    /\ LET p == request[w].playlist
           pk == request[w].song
       IN  IF playlist_exists(p) /\ song_exists(pk)
           THEN /\ playlist' = [playlist EXCEPT ![p].songs = @ \cup {pk}]
                /\ response' = Membership("add_to_playlist", request[w].user,
                                          pk, p, "ok")
           ELSE /\ playlist' = playlist
                /\ response' = Membership("add_to_playlist", request[w].user,
                                          pk, p, "error")
    /\ done(w)
    /\ UNCHANGED <<users, playlist_seq, library, catalog, engagement>>

(***************************************************************************)
(* SpecMembership: one upload and one playlist (private, or public and     *)
(* collaborative) per user, at most MaxSongs and MaxPlaylists, and         *)
(* add_to_playlist and remove_from_playlist by every user on every         *)
(* playlist; the owner's adds of a song that is not a member may also run  *)
(* query by query on several workers.                                      *)
(***************************************************************************)
NextMembership ==
    \/ \E u \in Users :
          /\ song_seq <= MaxSongs
          /\ \A p \in DOMAIN song : song[p].uploaded_by # u
          /\ upload_song(u, "POST", TRUE, TRUE)
    \/ \E u \in Users, open \in BOOLEAN :
          /\ playlist_seq <= MaxPlaylists
          /\ \A p \in DOMAIN playlist : playlist[p].user # u
          /\ create_playlist(u, "POST", TRUE, open, open)
    \/ \E u \in Users, pk \in DOMAIN song, p \in DOMAIN playlist :
          add_to_playlist(u, pk, "POST", p)
    \/ \E u \in Users, pk \in DOMAIN song, p \in DOMAIN playlist :
          remove_from_playlist(u, p, pk)
    \/ \E w \in Workers, u \in Users, pk \in DOMAIN song, p \in DOMAIN playlist :
          /\ playlist_owned_by(u, p) /\ pk \notin playlist[p].songs
          /\ ap_begin(w, u, pk, p)
    \/ \E w \in Workers : ap_add(w)

SpecMembership == Init /\ [][NextMembership]_vars

C30_MembershipIsASet ==
    [][LET p == response'.playlist
           pk == response'.pk
           answered == \A w \in Workers : request'[w] = request[w] \/ request'[w] = Idle
           added == /\ response'.view = "add_to_playlist"
                    /\ response'.status \in {"ok", "already"}
           removed == /\ response'.view = "remove_from_playlist"
                      /\ response'.status = "ok"
       IN  response'.view \in {"add_to_playlist", "remove_from_playlist"} /\ answered
              => /\ song' = song
                 /\ DOMAIN playlist' = DOMAIN playlist
                 /\ \A q \in DOMAIN playlist :
                       IF q = p /\ added
                       THEN playlist'[q] = [playlist[q] EXCEPT !.songs = @ \cup {pk}]
                       ELSE IF q = p /\ removed
                       THEN playlist'[q] = [playlist[q] EXCEPT !.songs = @ \ {pk}]
                       ELSE playlist'[q] = playlist[q]
                 /\ added /\ pk \in playlist[p].songs => playlist' = playlist
                 /\ response'.view = "remove_from_playlist" /\ pk \notin playlist[p].songs
                       => playlist' = playlist
                 /\ added /\ pk \notin playlist[p].songs
                       => playlist'[p].songs \ {pk} = playlist[p].songs]_vars

\* C30 as the specification states it: after every add, of a member too, the
\* songs without that song are the songs before the add
C30_AddThenRemoveRestores ==
    [][LET p == response'.playlist
           pk == response'.pk
           answered == \A w \in Workers : request'[w] = request[w] \/ request'[w] = Idle
           added == /\ response'.view = "add_to_playlist"
                    /\ response'.status \in {"ok", "already"}
       IN  added /\ answered
              => playlist'[p].songs \ {pk} = playlist[p].songs]_vars

\* an add of a song that is a member already was answered, while another
\* playlist holds a song
C30_Witness ==
    /\ response.view = "add_to_playlist" /\ response.status = "already"
    /\ playlist_exists(response.playlist)
    /\ response.pk \in playlist[response.playlist].songs
    /\ \E q \in DOMAIN playlist : q # response.playlist /\ playlist[q].songs # {}

====
